---------------------------- MODULE Spec2Model ----------------------------
(***************************************************************************)
(* Record lifecycle, status-transition workflow, voting and status-history *)
(* ledger of the Jiseti backend (routes.py, models.py, utils/validators.py)*)
(*                                                                         *)
(* The persistent tables are the variables records, media, votes and       *)
(* status_history.  A handler is an operator from its request and the      *)
(* tables to its outcome (HTTP status, JSON body, tables afterwards); under*)
(* Spec each request is served in one step that commits the outcome, so a  *)
(* rejected request is a stuttering step.  SpecConc runs the two voting    *)
(* handlers one SQL statement at a time in concurrent database sessions.   *)
(***************************************************************************)
EXTENDS Integers, Sequences, FiniteSets, TLC

VARIABLES
    records,          \* table records: id -> row (DOMAIN = ids of existing rows)
    media,            \* table media: record_id -> rows in insertion order
    votes,            \* table votes: <<record_id, user_id>> -> vote_type of each row
    status_history,   \* table status_history: record_id -> rows in insertion order
    next_record_id,   \* the next value of the primary-key sequence of records
    sess              \* the open database sessions of in-flight vote requests

vars == <<records, media, votes, status_history, next_record_id, sess>>

db == <<records, media, votes, status_history, next_record_id>>

----------------------------------------------------------------------------
(* Bounds of the model *)

NumUsers == 2

NumAdmins == 2

MaxRecords == 2

MaxHistory == 2

MaxRows == 4

NumSessions == 2

----------------------------------------------------------------------------
(* Values *)

\* SQL NULL in an integer key column; primary keys are handed out from 1.
NULL == 0

\* Python None / JSON null / SQL NULL for every other value.  A present value
\* v is written <<v>>, so that a field holds values of one shape.
None == <<>>

Some(v) == <<v>>

Users == 1..NumUsers

Admins == 1..NumAdmins

RecordIds == 1..MaxRecords

\* The keys the tables are laid out for: one more than the model lets exist, so
\* that a handler's result is defined in every state.
TableIds == 1..(MaxRecords + 1)

Sessions == 1..NumSessions

UserIdentity(u) == [role |-> "user", id |-> u]

AdminIdentity(a) == [role |-> "admin", id |-> a]

AnonymousIdentity == [role |-> "anonymous", id |-> NULL]

Identities ==
    {UserIdentity(u) : u \in Users} \cup {AdminIdentity(a) : a \in Admins}

valid_types ==
    {"red-flag", "intervention", "incident", "complaint", "suggestion", "emergency"}

\* The list of valid statuses with "draft" left in.
valid_statuses_with_draft == {"draft", "under-investigation", "rejected", "resolved"}

valid_statuses == {"under-investigation", "rejected", "resolved"}

valid_vote_types == {"support", "urgent"}

Statuses == {"draft"} \cup valid_statuses

\* dict.get(key, default)
Get(data, key, default) == IF key \in DOMAIN data THEN data[key] ELSE default

\* Python truthiness of an optional string: None and '' are false.
Truthy(v) == v # None /\ v # Some("")

\* a or b
Or(a, b) == IF Truthy(a) THEN a ELSE b


----------------------------------------------------------------------------
(* JSON values of a request body *)

\* A URL string as urlparse and str.endswith see it: its scheme, its netloc
\* and the lower-cased extension it ends with.
Url(scheme, netloc, ext) == [scheme |-> scheme, netloc |-> netloc, ext |-> ext]

EmptyUrl == Url("", "", "")

\* Python truthiness of an optional URL string.
TruthyUrl(v) == v # None /\ v # Some(EmptyUrl)

OrUrl(a, b) == IF TruthyUrl(a) THEN a ELSE b

\* A JSON string that float() cannot convert.
Text(s) == <<"text", s>>

\* float(v) succeeds on a JSON number, written Some(n).
IsFloat(v) == Len(v) = 1

image_extensions == {".jpg", ".jpeg", ".png", ".gif", ".webp", ".bmp"}

video_extensions == {".mp4", ".avi", ".mov", ".wmv", ".flv", ".webm", ".mkv"}

validate_media_url(url, media_type) ==
    IF ~TruthyUrl(url) THEN TRUE
    ELSE LET result == url[1] IN
         IF result.scheme = "" \/ result.netloc = "" THEN FALSE
         ELSE IF result.scheme \notin {"http", "https"} THEN FALSE
         ELSE IF media_type = "image" /\ result.ext \notin image_extensions THEN FALSE
         ELSE IF media_type = "video" /\ result.ext \notin video_extensions THEN FALSE
         ELSE TRUE

validate_coordinates(latitude, longitude) ==
    IF latitude = None \/ longitude = None THEN TRUE
    ELSE IF ~IsFloat(latitude) \/ ~IsFloat(longitude) THEN FALSE
    ELSE LET lat == latitude[1]
             lng == longitude[1]
         IN  IF ~(-90 <= lat /\ lat <= 90) THEN FALSE
             ELSE IF ~(-180 <= lng /\ lng <= 180) THEN FALSE
             ELSE TRUE

----------------------------------------------------------------------------
(* Rows and their JSON views *)

\* NormalUser.name of user u.
UserName(u) == "user" \o ToString(u)

\* Record(**data): the status column taken from the request body when present.
RecordFromBody(data, description, status, is_anonymous, normal_user_id) ==
    [type |-> Get(data, "type", None),
     title |-> Get(data, "title", None),
     description |-> description,
     status |-> Get(data, "status", Some(status))[1],
     latitude |-> Get(data, "latitude", None),
     longitude |-> Get(data, "longitude", None),
     location_name |-> Get(data, "location_name", None),
     resolution_notes |-> None,
     is_anonymous |-> is_anonymous,
     vote_count |-> 0,
     urgency_level |-> Get(data, "urgency_level", Some("medium")),
     normal_user_id |-> normal_user_id,
     assigned_admin_id |-> NULL]

\* Record(**data): the anonymity flag and the owner taken from the request
\* body when present.
RecordFromClaims(data, description, status, is_anonymous, normal_user_id) ==
    [RecordFromBody(data, description, status, is_anonymous, normal_user_id)
        EXCEPT !.status = status,
               !.is_anonymous = Get(data, "is_anonymous", Some(is_anonymous))[1],
               !.normal_user_id = Get(data, "normal_user_id", Some(normal_user_id))[1]]

\* Record(...) as the two creating handlers call it: the columns taken from the
\* request body `data` (with `description` as the handler defaults it), the three
\* columns the handler fixes, and the column defaults of the table.
Record(data, description, status, is_anonymous, normal_user_id) ==
    [type |-> Get(data, "type", None),
     title |-> Get(data, "title", None),
     description |-> description,
     status |-> status,
     latitude |-> Get(data, "latitude", None),
     longitude |-> Get(data, "longitude", None),
     location_name |-> Get(data, "location_name", None),
     resolution_notes |-> None,
     is_anonymous |-> is_anonymous,
     vote_count |-> 0,
     urgency_level |-> Get(data, "urgency_level", Some("medium")),
     normal_user_id |-> normal_user_id,
     assigned_admin_id |-> NULL]

Media(image_url, video_url) ==
    [media_type |-> IF TruthyUrl(image_url) THEN "image" ELSE "video",
     media_url |-> OrUrl(image_url, video_url),
     image_url |-> image_url, video_url |-> video_url]

\* The ledger row with the two statuses taken the wrong way round.
StatusHistorySwapped(old_status, new_status, changed_by, change_reason) ==
    [old_status |-> new_status, new_status |-> old_status,
     changed_by |-> changed_by, change_reason |-> change_reason]

\* The ledger row with old_status read after the record's status is assigned.
StatusHistoryFromNew(old_status, new_status, changed_by, change_reason) ==
    [old_status |-> new_status, new_status |-> new_status,
     changed_by |-> changed_by, change_reason |-> change_reason]

StatusHistory(old_status, new_status, changed_by, change_reason) ==
    [old_status |-> old_status, new_status |-> new_status,
     changed_by |-> changed_by, change_reason |-> change_reason]

\* Record.to_dict of row `row` (id `id`) with media rows `ms`.
to_dict(id, row, ms) ==
    LET m == IF ms # <<>> THEN Some(ms[1]) ELSE None IN
    [id |-> id, type |-> row.type, title |-> row.title,
     description |-> row.description, status |-> row.status,
     latitude |-> row.latitude, longitude |-> row.longitude,
     location_name |-> row.location_name, urgency_level |-> row.urgency_level,
     vote_count |-> row.vote_count, is_anonymous |-> row.is_anonymous,
     resolution_notes |-> row.resolution_notes,
     normal_user_id |-> row.normal_user_id,
     assigned_admin_id |-> row.assigned_admin_id,
     image_url |-> IF m # None /\ TruthyUrl(m[1].image_url) THEN m[1].image_url ELSE None,
     video_url |-> IF m # None /\ TruthyUrl(m[1].video_url) THEN m[1].video_url ELSE None,
     media |-> ms,
     creator_name |-> IF row.normal_user_id # NULL /\ ~row.is_anonymous
                      THEN UserName(row.normal_user_id) ELSE "Anonymous"]

\* to_public_dict hiding the owner of anonymous records only.
to_public_dict_if_anonymous(id, row, ms) ==
    LET data == to_dict(id, row, ms) IN
    IF row.is_anonymous
    THEN [k \in DOMAIN data \ {"normal_user_id"} |->
            IF k = "creator_name" THEN "Anonymous" ELSE data[k]]
    ELSE data

\* Record.to_public_dict: data.pop('normal_user_id'); creator_name = "Anonymous".
to_public_dict(id, row, ms) ==
    LET data == to_dict(id, row, ms) IN
    [k \in DOMAIN data \ {"normal_user_id"} |->
        IF k = "creator_name" THEN "Anonymous" ELSE data[k]]

----------------------------------------------------------------------------
(* Persistence helpers *)

\* get_or_404 over the rows the public list shows.
Exists_public(id) == id \in DOMAIN records /\ records[id].status # "draft"

\* Record.query.get_or_404(id) finds the row, whatever its columns hold.
Exists(id) == id \in DOMAIN records

\* db.session.add(row) of a new records row under the next primary key.
InsertRecord(row) == records @@ (next_record_id :> row)

\* db.session.delete(record): the row, and by cascade="all, delete-orphan"
\* its media, votes and status_history rows.
DeleteRecord(id) == [i \in DOMAIN records \ {id} |-> records[i]]

CascadeRows(table, id) == [table EXCEPT ![id] = <<>>]

\* The delete without the cascade to the votes of the record.
CascadeVotes_kept(table, id) == table

\* The cascade to the votes rows, which are keyed by record and user.
CascadeVotes(table, id) ==
    [k \in DOMAIN table |-> IF k[1] = id THEN <<>> ELSE table[k]]

\* The NOT NULL columns of records and media.
RecordNotNull(row) == row.type # None /\ row.title # None /\ row.description # None

\* A nullable db.Float column takes NULL or a number.
FloatColumn(v) == v = None \/ IsFloat(v)

MediaNotNull(m) == m.media_url # None

\* The votes table without its unique constraint.
unique_user_vote_dropped(table) == TRUE

\* UniqueConstraint('record_id', 'user_id', name='unique_user_vote')
unique_user_vote(table) == \A k \in DOMAIN table : Len(table[k]) <= 1

RECURSIVE SumLen(_, _)
SumLen(table, keys) ==
    IF keys = {} THEN 0
    ELSE LET k == CHOOSE x \in keys : TRUE
         IN  Len(table[k]) + SumLen(table, keys \ {k})

\* The count without its filter: the votes of all records.
CountVotes_unfiltered(table, record_id) == SumLen(table, DOMAIN table)

\* Vote.query.filter_by(record_id=record_id).count()
CountVotes(table, record_id) ==
    SumLen(table, {k \in DOMAIN table : k[1] = record_id})

\* update_vote_count counting the support votes only.
update_vote_count_support(table, record_id) ==
    IF Exists(record_id)
    THEN [records EXCEPT ![record_id].vote_count =
            Cardinality({k \in DOMAIN table :
                k[1] = record_id /\ table[k] # <<>> /\ table[k][1] = "support"})]
    ELSE records

\* update_vote_count(record_id) on the votes table `table`: the records table
\* with record.vote_count set, when the record exists.
update_vote_count(table, record_id) ==
    IF Exists(record_id)
    THEN [records EXCEPT ![record_id].vote_count = CountVotes(table, record_id)]
    ELSE records

\* create_status_history keeping one row per record: the latest transition
\* replaces the ledger.
create_status_history_latest(record_id, old_status, new_status, admin_id, reason) ==
    [status_history EXCEPT
        ![record_id] = <<StatusHistory(old_status, new_status, admin_id, reason)>>]

\* create_status_history writing the step a jump from draft to a terminal
\* status skips: a row into under-investigation, then a row out of it.
create_status_history_stepwise(record_id, old_status, new_status, admin_id, reason) ==
    [status_history EXCEPT
        ![record_id] =
            IF old_status = "draft" /\ new_status \in {"resolved", "rejected"}
            THEN @ \o <<StatusHistory(old_status, "under-investigation", admin_id, reason),
                        StatusHistory("under-investigation", new_status, admin_id, reason)>>
            ELSE Append(@, StatusHistory(old_status, new_status, admin_id, reason))]

\* create_status_history(record_id, old_status, new_status, admin_id, reason)
create_status_history(record_id, old_status, new_status, admin_id, reason) ==
    [status_history EXCEPT
        ![record_id] = Append(@, StatusHistory(old_status, new_status, admin_id, reason))]

----------------------------------------------------------------------------
(* Handlers.  Each is the function from the request and the tables to its  *)
(* outcome: the HTTP status and body of make_response and the tables after *)
(* commit (or after rollback, or untouched).                               *)

Outcome(status, body, recs, med, vts, hist, nid) ==
    [status |-> status, body |-> body, records |-> recs, media |-> med,
     votes |-> vts, status_history |-> hist, next_record_id |-> nid,
     notifications |-> {}]

\* The outcome `out` of a handler that has also handed the notifications `sent`
\* (pairs of channel and user id) to the e-mail and SMS providers.
Notifying(out, sent) == [out EXCEPT !.notifications = sent]

\* What a request meets outside the tables: whether the query for the owner's
\* NormalUser row finds the row, finds none (None) or raises, whether that user
\* has a phone_number, and how the e-mail and the SMS provider behave.
Env(lookup, email, phone_number, sms) ==
    [lookup |-> lookup, email |-> email, phone_number |-> phone_number, sms |-> sms]

ProviderStates == {"sent", "unconfigured", "error"}

Envs ==
    { Env(lookup, email, phone_number, sms) :
        lookup \in {"found", "missing", "raises"}, email \in ProviderStates,
        phone_number \in BOOLEAN, sms \in ProviderStates }

\* The result of a call: the value returned, or an exception raised.
Returned(value) == [raised |-> FALSE, value |-> value]

Raised == [raised |-> TRUE, value |-> FALSE]

\* send_status_email letting the provider's exception through.
send_status_email_uncaught(provider) ==
    IF provider = "error" THEN Raised ELSE Returned(provider = "sent")

\* utils.emailer.send_status_email: False without an API key, False when the
\* provider raises (except Exception), True otherwise.
send_status_email(provider) ==
    IF provider = "unconfigured" THEN Returned(FALSE)
    ELSE IF provider = "error" THEN Returned(FALSE)
    ELSE Returned(TRUE)

\* utils.emailer.send_sms_notification: the same shape.
send_sms_notification(provider) ==
    IF provider = "unconfigured" THEN Returned(FALSE)
    ELSE IF provider = "error" THEN Returned(FALSE)
    ELSE Returned(TRUE)

\* utils.emailer.send_record_created_email
send_record_created_email(provider) == send_status_email(provider)

\* make_response({'error': message}, status) with nothing written, or with the
\* session rolled back.
Rejected(status, message) ==
    Outcome(status, [error |-> message],
            records, media, votes, status_history, next_record_id)

\* An exception raised after db.session.commit(): the except clause rolls back
\* a session that holds nothing, and answers 500; the commit stands.
FailedAfterCommit(out, sent, message) ==
    Notifying([out EXCEPT !.status = 500, !.body = [error |-> message]], sent)

\* The role check letting every authenticated caller through.
is_authenticated(identity) == identity.role \in {"admin", "user"}

\* The role check of the admin endpoints.
is_admin(identity) == identity.role = "admin"

\* The authorization check without the comparison of the owner.
is_user(identity, record) == identity.role = "user"

\* The authorization check comparing the id alone.
is_owner_by_id(identity, record) == record.normal_user_id = identity.id

\* The authorization check of update_record and delete_record.
is_owner(identity, record) ==
    identity.role = "user" /\ record.normal_user_id = identity.id

\* The check taking every record to have an owner.
has_owner_always(record) == TRUE

\* "if record.normal_user_id:" before the owner of a record is notified.
has_owner(record) == record.normal_user_id # NULL

\* The state check refusing resolved records only.
is_unresolved(record) == record.status # "resolved"

\* The state check dropped.
is_draft_any(record) == TRUE

\* "Only draft records can be edited / deleted".
is_draft(record) == record.status = "draft"

\* The lookup filtered by a user id that matches no row.
existing_vote_missed(table, record_id, user_id) == None

\* existing_vote = Vote.query.filter_by(record_id=..., user_id=...).first()
existing_vote(table, record_id, user_id) ==
    IF table[<<record_id, user_id>>] # <<>>
    THEN Some(table[<<record_id, user_id>>][1]) ELSE None

\* The assignment without its "if not already assigned".
assign_admin_always(assigned_admin_id, admin_id) == admin_id

\* "Assign admin if not already assigned"
assign_admin(assigned_admin_id, admin_id) ==
    IF assigned_admin_id = NULL THEN admin_id ELSE assigned_admin_id

\* The public filter letting every record through.
is_public_any(record) == TRUE

\* "only show non-draft records publicly"
is_public(record) == record.status # "draft"

\* int(v) succeeds on a query argument that is a decimal string, written
\* Some(n); it raises ValueError on any other, written Text(s).
IsInt(v) == Len(v) = 1

\* Each argument falling back to its own default when int() refuses it.
get_pagination_params_each(args) ==
    LET page == Get(args, "page", Some(1))
        per_page == Get(args, "per_page", Some(10))
    IN  [page |-> IF ~IsInt(page) \/ page[1] < 1 THEN 1 ELSE page[1],
         per_page |-> IF ~IsInt(per_page) \/ per_page[1] < 1 \/ per_page[1] > 100
                      THEN 10 ELSE per_page[1]]

\* get_pagination_params(request)
get_pagination_params(args) ==
    LET page == Get(args, "page", Some(1))
        per_page == Get(args, "per_page", Some(10))
    IN  IF ~IsInt(page) \/ ~IsInt(per_page)
        THEN [page |-> 1, per_page |-> 10]
        ELSE [page |-> IF page[1] < 1 THEN 1 ELSE page[1],
              per_page |-> IF per_page[1] < 1 \/ per_page[1] > 100
                           THEN 10 ELSE per_page[1]]

\* The pairs <<term, text>> of the search terms and column texts of the model
\* with text ILIKE '%term%'.
Occurs ==
    { <<"bribe", "Bribe at checkpoint">>, <<"CHECKPOINT", "Bribe at checkpoint">>,
      <<"edit", "Edited">>, <<"...", "...">> }

\* column.ilike(f"%{search_term}%"); NULL matches nothing.
ilike(column, search_term) ==
    column # None /\ <<search_term, column[1]>> \in Occurs

\* order_by(Record.vote_count.desc(), Record.created_at.desc()); rows are
\* created in the order of their ids.
RECURSIVE Ordered(_, _)
Ordered(recs, ids) ==
    IF ids = {} THEN <<>>
    ELSE LET first == CHOOSE x \in ids : \A y \in ids \ {x} :
                          \/ recs[x].vote_count > recs[y].vote_count
                          \/ recs[x].vote_count = recs[y].vote_count /\ x > y
         IN  <<first>> \o Ordered(recs, ids \ {first})

\* query.paginate(page=page, per_page=per_page, error_out=False)
paginate(items, page, per_page) ==
    LET total == Len(items)
        pages == (total + per_page - 1) \div per_page
        from == (page - 1) * per_page + 1
        to == IF page * per_page < total THEN page * per_page ELSE total
    IN  [items |-> SubSeq(items, from, to), total |-> total, pages |-> pages,
         has_next |-> page < pages, has_prev |-> page > 1]

\* StatusHistory.to_dict
history_to_dict(record_id, h) ==
    [record_id |-> record_id, old_status |-> h.old_status,
     new_status |-> h.new_status, changed_by |-> h.changed_by,
     admin_name |-> IF h.changed_by # NULL
                    THEN "admin" \o ToString(h.changed_by) ELSE "System",
     change_reason |-> h.change_reason]

\* GET /public/records over the records table `recs`
get_public_records(recs, args) ==
    LET paging == get_pagination_params(args)
        status_filter == Get(args, "status", None)
        type_filter == Get(args, "type", None)
        urgency_filter == Get(args, "urgency", None)
        search_term == Get(args, "search", Some(""))
        query == { id \in DOMAIN recs :
            /\ is_public(recs[id])
            /\ (Truthy(status_filter) /\ status_filter # Some("all"))
                    => Some(recs[id].status) = status_filter
            /\ (Truthy(type_filter) /\ type_filter # Some("all"))
                    => recs[id].type = type_filter
            /\ (Truthy(urgency_filter) /\ urgency_filter # Some("all"))
                    => recs[id].urgency_level = urgency_filter
            /\ Truthy(search_term)
                    => \/ ilike(recs[id].title, search_term[1])
                       \/ ilike(recs[id].description, search_term[1])
                       \/ ilike(recs[id].location_name, search_term[1]) }
        ordered == Ordered(recs, query)
        paginated_records == paginate(ordered, paging.page, paging.per_page)
    IN  [status |-> 200,
         body |->
           [records |-> [i \in 1..Len(paginated_records.items) |->
                           LET id == paginated_records.items[i]
                           IN  to_public_dict(id, recs[id], media[id])],
            pagination |-> [page |-> paging.page, per_page |-> paging.per_page,
                            total |-> paginated_records.total,
                            pages |-> paginated_records.pages,
                            has_next |-> paginated_records.has_next,
                            has_prev |-> paginated_records.has_prev],
            search |-> [term |-> search_term,
                        filters |-> [status |-> status_filter, type |-> type_filter,
                                     urgency |-> urgency_filter]]]]

\* GET /public/records/<record_id> over the records table `recs`
get_public_record_details(recs, record_id) ==
    IF record_id \notin DOMAIN recs
    THEN \* get_or_404 raises inside the try; except Exception
         [status |-> 500, body |-> [error |-> "Failed to fetch record"]]
    ELSE IF ~is_public(recs[record_id])
    THEN [status |-> 404, body |-> [error |-> "Record not found"]]
    ELSE [status |-> 200,
          body |-> [record |-> to_public_dict(record_id, recs[record_id], media[record_id]),
                    status_history |->
                        [i \in 1..Len(status_history[record_id]) |->
                            history_to_dict(record_id, status_history[record_id][i])]]]

\* POST /public/report
anonymous_report(data) ==
    LET new_record == Record(data, Get(data, "description", None),
                             "under-investigation", TRUE, NULL)
        image_url == Get(data, "image_url", None)
        video_url == Get(data, "video_url", None)
        new_media == IF TruthyUrl(image_url) \/ TruthyUrl(video_url)
                     THEN <<Media(image_url, video_url)>> ELSE <<>>
    IN
    IF ~Truthy(Get(data, "title", None)) \/ ~Truthy(Get(data, "description", None))
    THEN Rejected(400, "Title and description are required")
    ELSE IF Get(data, "type", None) \notin {Some(t) : t \in valid_types}
    THEN Rejected(400, "Type must be one of: valid_types")
    ELSE IF ~FloatColumn(new_record.latitude) \/ ~FloatColumn(new_record.longitude)
    THEN \* the Float column refuses the value at flush; except: rollback
         Rejected(500, "Failed to create anonymous report")
    ELSE Outcome(201,
            [message |-> "Anonymous report submitted successfully",
             tracking_token |-> <<"ANON", next_record_id>>,
             record_id |-> next_record_id,
             record |-> to_public_dict(next_record_id, new_record, new_media)],
            InsertRecord(new_record),
            [media EXCEPT ![next_record_id] = new_media],
            votes, status_history, next_record_id + 1)

\* POST /records
create_record(identity, data, env) ==
    LET typed == IF Get(data, "type", None) \notin {Some(t) : t \in valid_types}
                 THEN ("type" :> Some("red-flag")) @@ data ELSE data
        latitude == Get(data, "latitude", None)
        longitude == Get(data, "longitude", None)
        image_url == Get(data, "image_url", None)
        video_url == Get(data, "video_url", None)
        new_record == Record(typed, Get(data, "description", Some("")),
                             "draft", FALSE, identity.id)
        new_media == IF TruthyUrl(image_url) \/ TruthyUrl(video_url)
                     THEN <<Media(image_url, video_url)>> ELSE <<>>
    IN
    IF identity.role # "user"
    THEN Rejected(403, "Only users can create records")
    ELSE IF ~Truthy(Get(data, "title", None))
    THEN Rejected(400, "Title is required")
    ELSE IF (latitude # None \/ longitude # None)
            /\ ~validate_coordinates(latitude, longitude)
    THEN Rejected(400, "Invalid coordinates provided")
    ELSE IF TruthyUrl(image_url) /\ ~validate_media_url(image_url, "image")
    THEN Rejected(400, "Invalid image URL format")
    ELSE IF TruthyUrl(video_url) /\ ~validate_media_url(video_url, "video")
    THEN Rejected(400, "Invalid video URL format")
    ELSE IF ~RecordNotNull(new_record)
            \/ ~FloatColumn(new_record.latitude)
            \/ ~FloatColumn(new_record.longitude)
    THEN \* the flush raises; except: rollback
         Rejected(500, "Failed to create record")
    ELSE
    LET committed == Outcome(201,
            [message |-> "Record created successfully",
             record |-> to_dict(next_record_id, new_record, new_media)],
            InsertRecord(new_record),
            [media EXCEPT ![next_record_id] = new_media],
            votes, status_history, next_record_id + 1)
        mail == send_record_created_email(env.email)
    IN  \* after the commit: user = NormalUser.query.get(identity['id']);
        \* user.email raises AttributeError when user is None
        IF env.lookup \in {"raises", "missing"}
        THEN FailedAfterCommit(committed, {}, "Failed to create record")
        ELSE IF mail.raised
        THEN FailedAfterCommit(committed, {<<"email", identity.id>>},
                               "Failed to create record")
        ELSE Notifying(committed, {<<"email", identity.id>>})

\* The lookup of the media row filtered by a key that matches no row.
existing_media_missed(rows) == None

\* media = Media.query.filter_by(record_id=record.id).first()
existing_media(rows) == IF rows # <<>> THEN Some(rows[1]) ELSE None

\* The columns of an update that also takes the status from the body.
editable_columns_and_status ==
    {"title", "description", "type", "latitude", "longitude", "location_name",
     "urgency_level", "status"}

editable_columns ==
    {"title", "description", "type", "latitude", "longitude", "location_name",
     "urgency_level"}

\* PATCH /records/<id>
update_record(identity, id, data) ==
    IF ~Exists(id)
    THEN \* get_or_404 raises inside the try; except Exception: rollback
         Rejected(500, "Failed to update record")
    ELSE
    LET record == records[id]
        lat == Get(data, "latitude", record.latitude)
        lng == Get(data, "longitude", record.longitude)
        patched == [k \in DOMAIN record |->
                      IF k \in editable_columns /\ k \in DOMAIN data
                      THEN data[k] ELSE record[k]]
        touches_media == "image_url" \in DOMAIN data \/ "video_url" \in DOMAIN data
        media_url == OrUrl(Get(data, "image_url", None), Get(data, "video_url", None))
        old == media[id]
        new_media ==
            IF ~touches_media THEN old
            ELSE IF existing_media(old) # None
            THEN [old EXCEPT ![1] =
                    [@ EXCEPT !.image_url = Get(data, "image_url", @),
                              !.video_url = Get(data, "video_url", @),
                              !.media_url = media_url]]
            ELSE Append(old, Media(Get(data, "image_url", None), Get(data, "video_url", None)))
    IN
    IF ~is_owner(identity, record)
    THEN Rejected(403, "Unauthorized")
    ELSE IF ~is_draft(record)
    THEN Rejected(400, "Only draft records can be edited")
    ELSE IF ("latitude" \in DOMAIN data \/ "longitude" \in DOMAIN data)
            /\ (lat # None \/ lng # None) /\ ~validate_coordinates(lat, lng)
    THEN Rejected(400, "Invalid coordinates")
    ELSE IF TruthyUrl(Get(data, "image_url", None))
            /\ ~validate_media_url(data.image_url, "image")
    THEN Rejected(400, "Invalid image URL")
    ELSE IF TruthyUrl(Get(data, "video_url", None))
            /\ ~validate_media_url(data.video_url, "video")
    THEN Rejected(400, "Invalid video URL")
    ELSE IF ~RecordNotNull(patched)
            \/ ~FloatColumn(patched.latitude) \/ ~FloatColumn(patched.longitude)
            \/ \E i \in 1..Len(new_media) : ~MediaNotNull(new_media[i])
    THEN \* the flush raises; except: rollback
         Rejected(500, "Failed to update record")
    ELSE Outcome(200,
            [message |-> "Record updated successfully",
             record |-> to_dict(id, patched, new_media)],
            [records EXCEPT ![id] = patched],
            [media EXCEPT ![id] = new_media],
            votes, status_history, next_record_id)

\* DELETE /records/<id>
delete_record(identity, id) ==
    IF ~Exists(id)
    THEN Rejected(500, "Failed to delete record")
    ELSE IF ~is_owner(identity, records[id])
    THEN Rejected(403, "Unauthorized")
    ELSE IF ~is_draft(records[id])
    THEN Rejected(400, "Only draft records can be deleted")
    ELSE Outcome(200, [message |-> "Record deleted successfully"],
            DeleteRecord(id), CascadeRows(media, id), CascadeVotes(votes, id),
            CascadeRows(status_history, id), next_record_id)

\* POST /records/<record_id>/vote
vote_record(identity, record_id, data) ==
    LET vote_type == Get(data, "vote_type", Some("support"))
        key == <<record_id, identity.id>>
    IN
    IF identity.role # "user"
    THEN Rejected(403, "Only users can vote")
    ELSE IF vote_type \notin {Some(t) : t \in valid_vote_types}
    THEN Rejected(400, "Vote type must be \"support\" or \"urgent\"")
    ELSE IF ~Exists(record_id)
    THEN Rejected(500, "Failed to vote on record")
    ELSE
    LET existing == existing_vote(votes, record_id, identity.id)
        table == IF existing # None
                 THEN [votes EXCEPT ![key][1] = vote_type[1]]
                 ELSE [votes EXCEPT ![key] = Append(@, vote_type[1])]
    IN
    IF ~unique_user_vote(table)
    THEN \* IntegrityError at the flush; commit raises; except: rollback
         Rejected(500, "Failed to vote on record")
    ELSE Outcome(200,
            [message |-> IF existing # None THEN "Vote updated successfully"
                         ELSE "Vote added successfully",
             vote_count |-> CountVotes(table, record_id),
             user_vote |-> vote_type[1]],
            update_vote_count(table, record_id),
            media, table, status_history, next_record_id)

\* DELETE /records/<record_id>/vote
remove_vote(identity, record_id) ==
    LET key == <<record_id, identity.id>> IN
    IF identity.role # "user"
    THEN Rejected(403, "Only users can remove votes")
    ELSE IF existing_vote(votes, record_id, identity.id) = None
    THEN Rejected(404, "No vote found to remove")
    ELSE
    LET table == [votes EXCEPT ![key] = Tail(@)] IN
         Outcome(200,
            [message |-> "Vote removed successfully",
             vote_count |-> CountVotes(table, record_id)],
            update_vote_count(table, record_id),
            media, table, status_history, next_record_id)

\* PATCH /records/<id>/status
update_status(identity, id, data, env) ==
    LET new_status == Get(data, "status", None)
        reason == Get(data, "reason", Some(""))
    IN
    IF ~is_admin(identity)
    THEN Rejected(403, "Only admins can update status")
    ELSE IF ~Exists(id)
    THEN Rejected(500, "Status update failed")
    ELSE IF new_status \notin {Some(t) : t \in valid_statuses}
    THEN Rejected(400, "Invalid status")
    ELSE
    LET record == records[id]
        old_status == record.status
        updated == [record EXCEPT
            !.status = new_status[1],
            !.resolution_notes =
                IF Truthy(Get(data, "resolution_notes", None))
                THEN data.resolution_notes ELSE @,
            !.assigned_admin_id = assign_admin(@, identity.id)]
        committed == Outcome(200,
            [message |-> "Status updated to " \o new_status[1],
             record |-> to_dict(id, updated, media[id])],
            [records EXCEPT ![id] = updated],
            media, votes,
            create_status_history(id, old_status, new_status[1], identity.id, reason),
            next_record_id)
        owner == record.normal_user_id
        mail == send_status_email(env.email)
        sms == send_sms_notification(env.sms)
    IN  \* after the commit: "Send notifications if user exists (not anonymous)"
        IF ~has_owner(record)
        THEN committed
        ELSE IF env.lookup = "raises"
        THEN FailedAfterCommit(committed, {}, "Status update failed")
        ELSE IF env.lookup = "missing"
        THEN \* "if user:" skips the notifications
             committed
        ELSE IF mail.raised
        THEN FailedAfterCommit(committed, {<<"email", owner>>}, "Status update failed")
        ELSE IF ~env.phone_number
        THEN Notifying(committed, {<<"email", owner>>})
        ELSE IF sms.raised
        THEN FailedAfterCommit(committed, {<<"email", owner>>, <<"sms", owner>>},
                               "Status update failed")
        ELSE Notifying(committed, {<<"email", owner>>, <<"sms", owner>>})

----------------------------------------------------------------------------
(* The server, one request at a time *)

NoSession == [pc |-> "idle"]

Init ==
    /\ records = <<>>
    /\ media = [r \in TableIds |-> <<>>]
    /\ votes = [k \in TableIds \X Users |-> <<>>]
    /\ status_history = [r \in TableIds |-> <<>>]
    /\ next_record_id = 1
    /\ sess = [s \in Sessions |-> NoSession]

Rows(table) == SumLen(table, DOMAIN table)

\* The model follows a run while the tables stay within its bounds: the keys
\* handed out, the ledger of one record, and the rows written in all.
WithinBounds(out) ==
    /\ out.next_record_id <= MaxRecords + 1
    /\ \A id \in TableIds : Len(out.status_history[id]) <= MaxHistory
    /\ (out.next_record_id - 1) + Rows(out.status_history) + Rows(out.votes) <= MaxRows

\* Serve one request: the tables become those of its outcome.
Serve(out) ==
    /\ WithinBounds(out)
    /\ records' = out.records
    /\ media' = out.media
    /\ votes' = out.votes
    /\ status_history' = out.status_history
    /\ next_record_id' = out.next_record_id
    /\ UNCHANGED sess

report == [title |-> Some("Bribe at checkpoint"), description |-> Some("..."),
           type |-> Some("red-flag")]

\* The same report with the keys a client may add to claim a status, an owner
\* or an anonymity flag.
claimed == [status |-> Some("resolved"), normal_user_id |-> Some(1),
            is_anonymous |-> Some(FALSE)] @@ report

CreateInputs ==
    { report, claimed,
      [description |-> Some("..."), type |-> Some("red-flag")],
      [title |-> Some("Bribe at checkpoint"), description |-> Some("..."),
       type |-> Some("bribe")] }

UpdateInputs ==
    { [title |-> Some("Edited")],
      [status |-> Some("resolved"), vote_count |-> Some(7),
       is_anonymous |-> Some(TRUE), normal_user_id |-> Some(2)] }

VoteInputs ==
    { <<>>, [vote_type |-> Some("urgent")], [vote_type |-> Some("like")] }

StatusInputs ==
    { [status |-> Some("under-investigation")],
      [status |-> Some("rejected")],
      [status |-> Some("resolved"), resolution_notes |-> Some("Fixed")],
      [status |-> Some("draft")] }

ListInputs ==
    { <<>>,
      [status |-> Some("resolved"), page |-> Some(2), per_page |-> Some(1)],
      [search |-> Some("bribe"), per_page |-> Text("many")] }

\* A read: the response is computed and no table changes.
GetPublicRecords ==
    \E args \in ListInputs :
        /\ get_public_records(records, args).status = 200
        /\ UNCHANGED vars

GetPublicRecordDetails ==
    \E id \in RecordIds :
        /\ get_public_record_details(records, id).status \in {200, 404, 500}
        /\ UNCHANGED vars

AnonymousReport ==
    \E data \in CreateInputs : Serve(anonymous_report(data))

\* The environment in which every dependency works.
Working == Env("found", "sent", FALSE, "sent")

\* The environments the server is run in: every dependency working, the owner
\* lookup failing, and both providers failing for a user with a phone number.
ServeEnvs ==
    { Env("found", "sent", FALSE, "sent"),
      Env("raises", "sent", FALSE, "sent"),
      Env("found", "error", TRUE, "unconfigured") }

CreateRecord ==
    \E identity \in Identities, data \in CreateInputs, env \in ServeEnvs :
        Serve(create_record(identity, data, env))

UpdateRecord ==
    \E identity \in Identities, id \in RecordIds, data \in UpdateInputs :
        Serve(update_record(identity, id, data))

DeleteRecord_ ==
    \E identity \in Identities, id \in RecordIds :
        Serve(delete_record(identity, id))

VoteRecord ==
    \E identity \in Identities, id \in RecordIds, data \in VoteInputs :
        Serve(vote_record(identity, id, data))

RemoveVote ==
    \E identity \in Identities, id \in RecordIds :
        Serve(remove_vote(identity, id))

UpdateStatus ==
    \E identity \in Identities, id \in RecordIds, data \in StatusInputs,
       env \in ServeEnvs :
        Serve(update_status(identity, id, data, env))

Next ==
    \/ GetPublicRecords
    \/ GetPublicRecordDetails
    \/ AnonymousReport
    \/ CreateRecord
    \/ UpdateRecord
    \/ DeleteRecord_
    \/ VoteRecord
    \/ RemoveVote
    \/ UpdateStatus

Spec == Init /\ [][Next]_vars

----------------------------------------------------------------------------
(* Properties of the server, one request at a time (Spec) *)

IsPrefix(a, b) == Len(a) <= Len(b) /\ SubSeq(b, 1, Len(a)) = a

\* The rows of votes that reference record id, counted row by row.
VoteRows(id) == SumLen(votes, {id} \X Users)

terminal_statuses == {"resolved", "rejected"}

\* C1: terminal states are absorbing.  No step taken while a record is
\* resolved or rejected changes its status or its ledger: every status update
\* of it, by any admin to any target status, is rejected.
C1_TerminalAbsorbing ==
    [][\A id \in DOMAIN records :
         records[id].status \in terminal_statuses =>
            /\ id \in DOMAIN records'
            /\ records'[id].status = records[id].status
            /\ status_history'[id] = status_history[id]]_vars

AllowedSteps ==
    { <<"draft", "under-investigation">>,
      <<"under-investigation", "resolved">>,
      <<"under-investigation", "rejected">> }

\* C2: in every step, a record whose status changes, or whose ledger gains a
\* row, took one of the three steps draft -> under-investigation,
\* under-investigation -> resolved, under-investigation -> rejected; so
\* draft -> resolved, draft -> rejected and same -> same never succeed.
C2_OnlyAllowedSteps ==
    [][\A id \in DOMAIN records :
         id \in DOMAIN records' =>
            /\ records'[id].status # records[id].status =>
                 <<records[id].status, records'[id].status>> \in AllowedSteps
            /\ Len(status_history'[id]) > Len(status_history[id]) =>
                 LET h == status_history'[id][Len(status_history'[id])]
                 IN  <<h.old_status, h.new_status>> \in AllowedSteps]_vars

\* C3: after any sequence of requests served one at a time, the vote_count of
\* every record equals the number of votes rows that reference it, whatever
\* their vote_type.
C3_VoteCountIsRowCount ==
    \A id \in DOMAIN records : records[id].vote_count = VoteRows(id)

\* Two users have voted on one record, one of them "urgent".
C3_Witness ==
    \E id \in DOMAIN records :
        /\ VoteRows(id) = 2
        /\ \E u \in Users : votes[<<id, u>>] = <<"urgent">>

\* C5: an update or a delete of a non-draft record by its owner is answered
\* 400 "Only draft records can be edited / deleted" and changes no table.
C5_NonDraftRefused ==
    \A id \in DOMAIN records :
        (records[id].normal_user_id # NULL /\ ~(records[id].status = "draft")) =>
            LET owner == UserIdentity(records[id].normal_user_id) IN
            /\ \A data \in UpdateInputs :
                 update_record(owner, id, data)
                    = Rejected(400, "Only draft records can be edited")
            /\ delete_record(owner, id)
                    = Rejected(400, "Only draft records can be deleted")

\* An owned record has left draft and has reached a terminal status.
C5_Witness ==
    \E id \in DOMAIN records :
        /\ records[id].normal_user_id # NULL
        /\ records[id].status = "resolved"
        /\ Len(status_history[id]) = 2

\* C6: every anonymous report with a title, a description and a valid type
\* is accepted, and creates a record with status under-investigation, no
\* owner and is_anonymous true, whatever status, owner or anonymity flag the
\* body carries; the response holds a tracking token and the record.
C6_AnonymousCreation ==
    \A data \in {report, claimed} :
        LET out == anonymous_report(data)
            id == next_record_id
        IN  /\ out.status = 201
            /\ DOMAIN out.records = DOMAIN records \cup {id}
            /\ out.records[id].status = "under-investigation"
            /\ out.records[id].normal_user_id = NULL
            /\ out.records[id].is_anonymous = TRUE
            /\ "tracking_token" \in DOMAIN out.body
            /\ out.body.record = to_public_dict(id, out.records[id], out.media[id])
            /\ out.body.record.id = id
            /\ out.body.record.status = "under-investigation"
            /\ out.body.record.is_anonymous = TRUE

\* An anonymous report has just been stored, next to a record a user owns.
C6_Witness ==
    \E id \in DOMAIN records :
        /\ records[id].is_anonymous
        /\ records[id].status = "under-investigation"
        /\ records[id].normal_user_id = NULL
        /\ status_history[id] = <<>>
        /\ \E other \in DOMAIN records : records[other].normal_user_id # NULL

\* C8: a cast on a record by a user who already holds a vote on it succeeds,
\* sets the type of that row in place, adds no row, leaves vote_count
\* unchanged, and reports that count and the type cast.
C8_RecastInPlace ==
    \A id \in DOMAIN records, u \in Users, t \in valid_vote_types :
        votes[<<id, u>>] # <<>> =>
            LET out == vote_record(UserIdentity(u), id, [vote_type |-> Some(t)]) IN
            /\ out.status = 200
            /\ out.votes = [votes EXCEPT ![<<id, u>>] = <<t>>]
            /\ out.records = records
            /\ out.body.vote_count = records[id].vote_count
            /\ out.body.user_vote = t

\* A user holds an "urgent" vote on a record another user voted on too.
C8_Witness ==
    \E id \in DOMAIN records, u \in Users :
        /\ votes[<<id, u>>] = <<"urgent">>
        /\ records[id].vote_count = 2

\* C9: assigned_admin_id is null while the ledger of the record is empty, and
\* from the first transition on it is the admin who performed that first
\* transition, whoever performs the later ones.
C9_FirstAdminKept ==
    \A id \in DOMAIN records :
        records[id].assigned_admin_id =
            IF status_history[id] = <<>> THEN NULL
            ELSE status_history[id][1].changed_by

\* A second admin has transitioned a record a first admin had transitioned.
C9_Witness ==
    \E id \in DOMAIN records :
        /\ Len(status_history[id]) = 2
        /\ status_history[id][2].changed_by # status_history[id][1].changed_by
        /\ records[id].assigned_admin_id = status_history[id][1].changed_by

\* C10: in every step the ledger of every record keeps each of its rows,
\* unmodified and in place: the ledger before is a prefix of the ledger after.
C10_LedgerAppendOnly ==
    [][\A id \in TableIds : IsPrefix(status_history[id], status_history'[id])]_vars

\* A record has been deleted while another record has a ledger of two rows.
C10_Witness ==
    /\ \E id \in 1..(next_record_id - 1) : id \notin DOMAIN records
    /\ \E id \in DOMAIN records : Len(status_history[id]) = 2

\* The records table with the owner of record id replaced by `owner`.
OwnedBy(id, owner) == [records EXCEPT ![id].normal_user_id = owner]

\* C11: the public projection of a record holds no normal_user_id and has
\* creator_name "Anonymous", and the public list (for every query) and the
\* public detail view answer the same whoever owns the record, or nobody.
C11_PublicHidesOwner ==
    \A id \in DOMAIN records :
        LET public == to_public_dict(id, records[id], media[id]) IN
        /\ "normal_user_id" \notin DOMAIN public
        /\ public.creator_name = "Anonymous"
        /\ \A owner \in Users \cup {NULL} :
            /\ \A args \in ListInputs :
                 get_public_records(OwnedBy(id, owner), args)
                    = get_public_records(records, args)
            /\ get_public_record_details(OwnedBy(id, owner), id)
                    = get_public_record_details(records, id)

\* An owned record is publicly listed (it has left draft).
C11_Witness ==
    \E id \in DOMAIN records :
        /\ records[id].normal_user_id # NULL
        /\ ~records[id].is_anonymous
        /\ records[id].status = "under-investigation"
        /\ Len(get_public_records(records, <<>>).body.records) = 1

\* The outcome leaves every table as it is.
Untouched(out) ==
    /\ out.records = records
    /\ out.media = media
    /\ out.votes = votes
    /\ out.status_history = status_history
    /\ out.next_record_id = next_record_id

\* C12: update, delete and cast by a user and a status update by an admin that
\* name a record id with no row answer 404 (not found), not the 500 of a
\* failed dependency, and change no table.
C12_AbsentIsNotFound ==
    \A id \in RecordIds :
        id \notin DOMAIN records =>
            \A u \in Users, a \in Admins :
                /\ update_record(UserIdentity(u), id, [title |-> Some("Edited")]).status = 404
                /\ delete_record(UserIdentity(u), id).status = 404
                /\ vote_record(UserIdentity(u), id, <<>>).status = 404
                /\ update_status(AdminIdentity(a), id, [status |-> Some("resolved")],
                                 Env("found", "sent", FALSE, "sent")).status = 404
                /\ Untouched(update_record(UserIdentity(u), id, [title |-> Some("Edited")]))
                /\ Untouched(delete_record(UserIdentity(u), id))
                /\ Untouched(vote_record(UserIdentity(u), id, <<>>))
                /\ Untouched(update_status(AdminIdentity(a), id, [status |-> Some("resolved")],
                                           Env("found", "sent", FALSE, "sent")))

\* C13: an update of an existing record by a caller who is not its owner is
\* answered 403 whatever the record's status, an update by the owner of a
\* non-draft record is answered 400, both without any change; an update
\* succeeds only for the owner of a draft.
C13_OwnershipBeforeState ==
    \A id \in DOMAIN records, identity \in Identities, data \in UpdateInputs :
        LET out == update_record(identity, id, data)
            owner == identity.role = "user"
                        /\ identity.id = records[id].normal_user_id
        IN  /\ ~owner => out = Rejected(403, "Unauthorized")
            /\ (owner /\ ~(records[id].status = "draft"))
                    => out = Rejected(400, "Only draft records can be edited")
            /\ out.status = 200 => (owner /\ records[id].status = "draft")

\* A user's record has left draft while another record of a user is a draft.
C13_Witness ==
    \E id, other \in DOMAIN records :
        /\ records[id].normal_user_id # NULL
        /\ records[id].status = "resolved"
        /\ records[other].normal_user_id # NULL
        /\ records[other].status = "draft"

\* C14: a status update by a caller whose role is not admin is answered 403 for
\* every record id, with or without a row, owned by the caller or not, and for
\* every requested status; it changes no table and sends no notification.
C14_NonAdminRefused ==
    \A u \in Users, id \in TableIds, data \in StatusInputs, env \in Envs :
        update_status(UserIdentity(u), id, data, env)
            = Rejected(403, "Only admins can update status")

\* One record is owned by a user, and a record id has no row.
C14_Witness ==
    /\ \E id \in DOMAIN records : records[id].normal_user_id # NULL
    /\ \E id \in RecordIds : id \notin DOMAIN records

InvalidStatusInputs ==
    { <<>>, [status |-> None], [status |-> Some("")], [status |-> Some("draft")],
      [status |-> Some("closed"), resolution_notes |-> Some("Fixed"),
       reason |-> Some("done")] }

\* C15: a status update of an existing record by an admin with a status
\* outside under-investigation, resolved, rejected ("draft" and a missing
\* status included) is answered 400 "Invalid status" and leaves the record, its
\* resolution_notes, its assigned_admin_id and its ledger as they are.
C15_InvalidStatusRefused ==
    \A id \in DOMAIN records, a \in Admins, data \in InvalidStatusInputs, env \in Envs :
        update_status(AdminIdentity(a), id, data, env) = Rejected(400, "Invalid status")

\* A draft exists, next to a record that an admin has been assigned to.
C15_Witness ==
    /\ \E id \in DOMAIN records : records[id].status = "draft"
    /\ \E id \in DOMAIN records : records[id].assigned_admin_id # NULL

\* C16: a status update that succeeds (an admin, an existing record, a valid
\* status) appends exactly one row to the ledger of its record, with old_status
\* the status before the call, new_status the status requested and changed_by
\* the acting admin, also when the two statuses are equal, and touches no other
\* ledger; every other status update is not answered 200 and, like every
\* request of every other handler, leaves all ledgers as they are.
C16_OneRowPerTransition ==
    /\ \A id \in RecordIds, identity \in Identities, data \in StatusInputs,
          env \in ServeEnvs :
         LET out == update_status(identity, id, data, env) IN
         IF /\ identity.role = "admin"
            /\ id \in DOMAIN records
            /\ data.status[1] \in {"under-investigation", "rejected", "resolved"}
         THEN /\ out.status_history =
                    [status_history EXCEPT ![id] = Append(@,
                        [old_status |-> records[id].status,
                         new_status |-> data.status[1],
                         changed_by |-> identity.id,
                         change_reason |-> Get(data, "reason", Some(""))])]
              /\ out.records[id].status = data.status[1]
              /\ out.status = 200 \/ env.lookup = "raises"
         ELSE out.status # 200 /\ out.status_history = status_history
    /\ \A data \in CreateInputs : anonymous_report(data).status_history = status_history
    /\ \A identity \in Identities :
         /\ \A data \in CreateInputs, env \in ServeEnvs :
              create_record(identity, data, env).status_history = status_history
         /\ \A id \in RecordIds :
              /\ \A data \in UpdateInputs :
                   update_record(identity, id, data).status_history = status_history
              /\ delete_record(identity, id).status_history = status_history
              /\ \A data \in VoteInputs :
                   vote_record(identity, id, data).status_history = status_history
              /\ remove_vote(identity, id).status_history = status_history

\* A ledger of two rows whose second row records a transition to the status the
\* record already had.
C16_Witness ==
    \E id \in DOMAIN records :
        /\ Len(status_history[id]) = 2
        /\ status_history[id][2].old_status = status_history[id][2].new_status
        /\ status_history[id][1].old_status # status_history[id][1].new_status

\* C19: a request of a mutating handler that is answered with a failure
\* (status 400 or above) leaves every table as it was before the request, also
\* when the failure is raised after the commit of create_record or
\* update_status.
C19_AllOrNothing ==
    /\ \A data \in CreateInputs :
         LET out == anonymous_report(data) IN out.status >= 400 => Untouched(out)
    /\ \A identity \in Identities :
         /\ \A data \in CreateInputs, env \in ServeEnvs :
              LET out == create_record(identity, data, env) IN
              out.status >= 400 => Untouched(out)
         /\ \A id \in RecordIds :
              /\ \A data \in UpdateInputs :
                   LET out == update_record(identity, id, data) IN
                   out.status >= 400 => Untouched(out)
              /\ LET out == delete_record(identity, id) IN
                 out.status >= 400 => Untouched(out)
              /\ \A data \in VoteInputs :
                   LET out == vote_record(identity, id, data) IN
                   out.status >= 400 => Untouched(out)
              /\ LET out == remove_vote(identity, id) IN
                 out.status >= 400 => Untouched(out)
              /\ \A data \in StatusInputs, env \in ServeEnvs :
                   LET out == update_status(identity, id, data, env) IN
                   out.status >= 400 => Untouched(out)

\* The environment of a request whose providers all work, with the owner
\* lookup and the owner's phone number as in env.
Delivering(env) == Env(env.lookup, "sent", env.phone_number, "sent")

\* The status, the body and the tables of the two outcomes are the same.
SameResult(out, other) ==
    /\ out.status = other.status
    /\ out.body = other.body
    /\ out.records = other.records
    /\ out.media = other.media
    /\ out.votes = other.votes
    /\ out.status_history = other.status_history
    /\ out.next_record_id = other.next_record_id

\* C20: when the owner lookup works, create_record and update_status give the
\* same answer and the same tables whether the email and SMS providers send,
\* fail or are not configured: a status update by an admin of an existing
\* record to a valid status is answered 200 with the record's status, its
\* assigned admin and its ledger row written, and a creation that is answered
\* 201 with working providers is answered 201 with the same record stored.
C20_DispatchFailureIgnored ==
    \A env \in Envs :
        env.lookup = "found" =>
            /\ \A identity \in Identities, data \in CreateInputs :
                 \A out \in {create_record(identity, data, env)},
                    other \in {create_record(identity, data, Delivering(env))} :
                 SameResult(out, other)
            /\ \A identity \in Identities, id \in RecordIds, data \in StatusInputs :
                 \A out \in {update_status(identity, id, data, env)},
                    other \in {update_status(identity, id, data, Delivering(env))} :
                 /\ SameResult(out, other)
                 /\ ( /\ is_admin(identity)
                      /\ id \in DOMAIN records
                      /\ data.status[1] \in {"under-investigation", "rejected", "resolved"} )
                    => /\ out.status = 200
                       /\ out.records[id].status = data.status[1]
                       /\ out.records[id].assigned_admin_id # NULL
                       /\ Len(out.status_history[id]) = Len(status_history[id]) + 1

\* A record with an owner whose status has been updated, and for which a
\* further status update and a creation by its owner are answered 200 and 201
\* while the email provider fails and the SMS provider is not configured.
C20_Witness ==
    \E id \in DOMAIN records, a \in Admins :
        /\ records[id].normal_user_id # NULL
        /\ Len(status_history[id]) = 1
        /\ records[id].assigned_admin_id = a
        /\ update_status(AdminIdentity(a), id, [status |-> Some("resolved")],
                         Env("found", "error", TRUE, "unconfigured")).status = 200
        /\ \E data \in CreateInputs :
             create_record(UserIdentity(records[id].normal_user_id), data,
                           Env("found", "error", TRUE, "unconfigured")).status = 201

\* The notifications of `sent` handed to the e-mail provider.
Emails(sent) == {n \in sent : n[1] = "email"}

\* What every handler but create_record hands to the providers: nothing, but
\* for a status update; a status update of a record without owner hands over
\* nothing; whatever a status update hands over is addressed to the owner of
\* the record and the request is answered 200; and a status update answered
\* 200 of a record whose owner is found hands over exactly one e-mail.
NotifiesOwnerOnTransition ==
    /\ \A data \in CreateInputs : anonymous_report(data).notifications = {}
    /\ \A identity \in Identities, id \in RecordIds :
         /\ \A data \in UpdateInputs :
              update_record(identity, id, data).notifications = {}
         /\ delete_record(identity, id).notifications = {}
         /\ \A data \in VoteInputs :
              vote_record(identity, id, data).notifications = {}
         /\ remove_vote(identity, id).notifications = {}
         /\ \A data \in StatusInputs, env \in Envs :
              \A out \in {update_status(identity, id, data, env)} :
              /\ out.notifications # {} =>
                   /\ out.status = 200
                   /\ id \in DOMAIN records
                   /\ records[id].normal_user_id # NULL
                   /\ \A n \in out.notifications : n[2] = records[id].normal_user_id
              /\ ( /\ out.status = 200
                   /\ records[id].normal_user_id # NULL
                   /\ env.lookup = "found" )
                 => Cardinality(Emails(out.notifications)) = 1

\* C21 as stated: a notification is handed to a provider only by a status
\* update answered 200 of a record that has an owner, addressed to that owner;
\* status updates of records without owner hand over nothing, each status
\* update answered 200 of an owned record whose owner is found hands over
\* exactly one e-mail, and no other handler, create_record included, hands
\* over anything.
C21_OnlyTransitionsNotify ==
    /\ NotifiesOwnerOnTransition
    /\ \A identity \in Identities, data \in CreateInputs, env \in Envs :
         create_record(identity, data, env).notifications = {}

\* C21 amended: as stated, but that create_record hands over one e-mail,
\* addressed to the creator, exactly when it is answered 201.
C21_TransitionsAndCreationsNotify ==
    /\ NotifiesOwnerOnTransition
    /\ \A identity \in Identities, data \in CreateInputs, env \in Envs :
         \A out \in {create_record(identity, data, env)} :
         out.notifications =
            IF out.status = 201 THEN {<<"email", identity.id>>} ELSE {}

\* A record without owner and a record with an owner, both with a status
\* update in their ledger, the owner being notified by e-mail and SMS of a
\* further one.
C21_Witness ==
    \E anon \in DOMAIN records, id \in DOMAIN records :
        /\ records[anon].normal_user_id = NULL
        /\ status_history[anon] # <<>>
        /\ records[id].normal_user_id # NULL
        /\ status_history[id] # <<>>
        /\ update_status(AdminIdentity(1), id, [status |-> Some("resolved")],
                         Env("found", "sent", TRUE, "sent")).notifications
             = {<<"email", records[id].normal_user_id>>,
                <<"sms", records[id].normal_user_id>>}

\* The query strings of GET /public/records: a status, a type and an urgency
\* filter and a search term, each present or not.
PublicQueries ==
    { [k \in keys |-> full[k]] :
        keys \in SUBSET {"status", "type", "urgency", "search"},
        full \in [status : {Some("draft"), Some("all"), Some("resolved")},
                  type : {Some("red-flag")},
                  urgency : {Some("medium")},
                  search : {Some("bribe"), Some("edit")}] }

\* C24: whatever status, type and urgency filter and search term it is given,
\* status=draft included, the public list is answered 200 and holds no draft
\* record; without filter it holds every record that is not a draft; and the
\* public detail view of a draft record is answered 404.
C24_NoDraftInPublicViews ==
    /\ \A args \in PublicQueries :
         \A out \in {get_public_records(records, args)} :
            /\ out.status = 200
            /\ \A i \in 1..Len(out.body.records) :
                 /\ out.body.records[i].status # "draft"
                 /\ records[out.body.records[i].id].status # "draft"
            /\ args = <<>> =>
                 {out.body.records[i].id : i \in 1..Len(out.body.records)}
                    = {id \in DOMAIN records : records[id].status # "draft"}
    /\ \A id \in DOMAIN records :
         records[id].status = "draft" =>
            get_public_record_details(records, id).status = 404

\* A draft with more votes than a resolved record: the list asked for drafts
\* is empty, and the detail view of the resolved record is answered 200.
C24_Witness ==
    \E d \in DOMAIN records, r \in DOMAIN records :
        /\ records[d].status = "draft"
        /\ records[r].status = "resolved"
        /\ records[d].vote_count > records[r].vote_count
        /\ get_public_records(records, [status |-> Some("draft")]).body.records = <<>>
        /\ get_public_record_details(records, r).status = 200

\* In the row, is_anonymous is true exactly when there is no owner.
AnonymousIffOwnerless(row) == row.is_anonymous <=> (row.normal_user_id = NULL)

\* C26: in every reachable state every record has is_anonymous true exactly
\* when normal_user_id is null; an anonymous report stores a record with no
\* owner and is_anonymous true, a creation by a user stores one with that user
\* as owner and is_anonymous false, whatever the body claims; and no step
\* changes either column of a record that stays.
C26_AnonymousIffOwnerless ==
    /\ [](/\ \A id \in DOMAIN records : AnonymousIffOwnerless(records[id])
          /\ \A data \in CreateInputs :
               \A out \in {anonymous_report(data)} :
                  out.status = 201 =>
                     /\ out.records[next_record_id].normal_user_id = NULL
                     /\ out.records[next_record_id].is_anonymous
          /\ \A u \in Users, data \in CreateInputs, env \in ServeEnvs :
               \A out \in {create_record(UserIdentity(u), data, env)} :
                  next_record_id \in DOMAIN out.records =>
                     /\ out.records[next_record_id].normal_user_id = u
                     /\ ~out.records[next_record_id].is_anonymous)
    /\ [][\A id \in DOMAIN records \cap DOMAIN records' :
            /\ records'[id].is_anonymous = records[id].is_anonymous
            /\ records'[id].normal_user_id = records[id].normal_user_id]_vars

\* An anonymous record next to a record owned by user 2 that has been voted
\* on and moved on by an admin.
C26_Witness ==
    \E anon \in DOMAIN records, id \in DOMAIN records :
        /\ records[anon].is_anonymous
        /\ records[anon].normal_user_id = NULL
        /\ ~records[id].is_anonymous
        /\ records[id].normal_user_id = 2
        /\ records[id].status # "draft"
        /\ records[id].vote_count > 0

\* The body of the status update of the end-to-end scenario.
resolve_fixed == [status |-> Some("resolved"), resolution_notes |-> Some("Fixed")]

\* Record id has an owner and its latest status update took it from draft
\* straight to resolved with resolution_notes "Fixed".
AfterDirectResolve(id) ==
    /\ records[id].normal_user_id # NULL
    /\ records[id].status = "resolved"
    /\ records[id].resolution_notes = Some("Fixed")
    /\ status_history[id] # <<>>
    /\ status_history[id][Len(status_history[id])].old_status = "draft"
    /\ status_history[id][Len(status_history[id])].new_status = "resolved"

\* The end-to-end scenario with a ledger of n rows at its end: a draft that a
\* user owns is taken by any admin to resolved with resolution_notes "Fixed"
\* in one status update, answered 200, whose ledger row is draft -> resolved
\* by that admin; the ledger of the record then has n rows, and every update
\* by the owner is answered 400 and changes nothing.
DirectResolve(n) ==
    /\ \A id \in DOMAIN records, a \in Admins :
         (records[id].normal_user_id # NULL /\ records[id].status = "draft") =>
            \A out \in {update_status(AdminIdentity(a), id, resolve_fixed, Working)} :
               /\ out.status = 200
               /\ out.records[id].status = "resolved"
               /\ out.records[id].resolution_notes = Some("Fixed")
               /\ Len(out.status_history[id]) = n
               /\ out.status_history[id][Len(out.status_history[id])]
                    = StatusHistory("draft", "resolved", a, Some(""))
    /\ \A id \in DOMAIN records :
         AfterDirectResolve(id) =>
            /\ Len(status_history[id]) = n
            /\ \A data \in UpdateInputs :
                 update_record(UserIdentity(records[id].normal_user_id), id, data)
                    = Rejected(400, "Only draft records can be edited")

C32_RetractOwnVote ==
    /\ [](\A id \in RecordIds, u \in Users :
            \A out \in {remove_vote(UserIdentity(u), id)} :
               IF votes[<<id, u>>] = <<>>
               THEN out = Rejected(404, "No vote found to remove")
               ELSE /\ out.status = 200
                    /\ out.votes = [votes EXCEPT ![<<id, u>>] = <<>>]
                    /\ out.records =
                         [records EXCEPT ![id].vote_count = records[id].vote_count - 1]
                    /\ out.body.vote_count = records[id].vote_count - 1
                    /\ out.media = media
                    /\ out.status_history = status_history
                    /\ out.next_record_id = next_record_id)
    /\ [][\A id \in DOMAIN records \cap DOMAIN records', u \in Users :
            (votes[<<id, u>>] # <<>> /\ votes'[<<id, u>>] = <<>>) =>
               /\ \A v \in Users \ {u} : votes'[<<id, v>>] = votes[<<id, v>>]
               /\ records'[id].vote_count = records[id].vote_count - 1
               /\ remove_vote(UserIdentity(u), id).status = 200]_vars

\* A record with one vote left, of a user who may retract it, and on which the
\* other user holds no vote to retract.
C32_Witness ==
    \E id \in DOMAIN records, u \in Users, v \in Users :
        /\ votes[<<id, u>>] = <<>>
        /\ votes[<<id, v>>] = <<"urgent">>
        /\ records[id].vote_count = 1
        /\ remove_vote(UserIdentity(u), id).status = 404
        /\ remove_vote(UserIdentity(v), id).body.vote_count = 0

\* C33: no step sets the status of an existing record to draft or removes a
\* record that is not a draft: a record whose status differs from draft is
\* there, with a status that differs from draft, in every later state; a
\* status update to draft is refused, and an update that names a status
\* leaves the status as it is.
C33_NeverBackToDraft ==
    /\ [][\A id \in DOMAIN records :
            records[id].status # "draft" =>
               /\ id \in DOMAIN records'
               /\ records'[id].status # "draft"]_vars
    /\ [](\A id \in DOMAIN records, identity \in Identities :
            /\ \A env \in ServeEnvs :
                 update_status(identity, id, [status |-> Some("draft")], env).status
                    \in {400, 403}
            /\ \A out \in {update_record(identity, id, [status |-> Some("draft")])} :
                 out.records[id].status = records[id].status)

\* An anonymous record that two status updates have taken to rejected and
\* that an admin asks to take back to draft.
C33_Witness ==
    \E id \in DOMAIN records :
        /\ records[id].is_anonymous
        /\ records[id].status = "rejected"
        /\ Len(status_history[id]) = 2
        /\ update_status(AdminIdentity(1), id, [status |-> Some("draft")], Working).status = 400

\* The status a record is created with: under-investigation by an anonymous
\* report, draft by a user.
CreatedWith(row) == IF row.is_anonymous THEN "under-investigation" ELSE "draft"

\* C34: when requests are served one at a time the ledger of every record is
\* a chain: the old_status of its first row is the status the record was
\* created with, the old_status of each later row is the new_status of the row
\* before it, and the new_status of its last row is the status of the record;
\* a record with an empty ledger has the status it was created with, and a
\* draft has an empty ledger and no assigned admin.
C34_LedgerIsChain ==
    \A id \in DOMAIN records :
        LET ledger == status_history[id] IN
        /\ IF ledger = <<>>
           THEN records[id].status = CreatedWith(records[id])
           ELSE /\ ledger[1].old_status = CreatedWith(records[id])
                /\ ledger[Len(ledger)].new_status = records[id].status
        /\ \A i \in 2..Len(ledger) : ledger[i].old_status = ledger[i - 1].new_status
        /\ records[id].status = "draft" =>
             (ledger = <<>> /\ records[id].assigned_admin_id = NULL)

\* A record a user created that two status updates have taken from draft to
\* under-investigation and on to resolved, next to a draft.
C34_Witness ==
    \E id \in DOMAIN records, d \in DOMAIN records :
        /\ Len(status_history[id]) = 2
        /\ status_history[id][1].old_status = "draft"
        /\ status_history[id][1].new_status = "under-investigation"
        /\ status_history[id][2].new_status = "resolved"
        /\ records[d].status = "draft"
        /\ records[d].assigned_admin_id = NULL

\* C37: an id that a user and an admin share confers no right: every update
\* and every delete of a record by the admin whose id is the id of its owner
\* is answered 403 and changes nothing, and every status update of every
\* record by a user whose id is the id of an admin is answered 403 and changes
\* nothing.
C37_SharedIdsConferNothing ==
    /\ \A id \in DOMAIN records :
         records[id].normal_user_id \in Admins =>
            LET admin == AdminIdentity(records[id].normal_user_id) IN
            /\ \A data \in UpdateInputs :
                 update_record(admin, id, data) = Rejected(403, "Unauthorized")
            /\ delete_record(admin, id) = Rejected(403, "Unauthorized")
    /\ \A u \in Users \cap Admins, id \in RecordIds, data \in StatusInputs,
          env \in ServeEnvs :
         update_status(UserIdentity(u), id, data, env)
            = Rejected(403, "Only admins can update status")

\* A draft of user 1, which user 1 may update and delete, next to a record
\* that admin 1 has taken out of draft.
C37_Witness ==
    \E id \in DOMAIN records, other \in DOMAIN records :
        /\ 1 \in Users \cap Admins
        /\ records[id].normal_user_id = 1
        /\ records[id].status = "draft"
        /\ update_record(UserIdentity(1), id, [title |-> Some("Edited")]).status = 200
        /\ delete_record(UserIdentity(1), id).status = 200
        /\ records[other].assigned_admin_id = 1
        /\ update_status(AdminIdentity(1), other, [status |-> Some("rejected")],
                         Working).status = 200

\* C38: a cast never consults the status or the owner of the record: for
\* every stored record, whatever its status (draft and the terminal statuses
\* included) and whoever owns it, every user's cast with a valid vote_type, or
\* with none, is answered 200, leaves that user exactly one vote row of the
\* type cast on the record, and leaves the status and the owner as they were.
C38_CastIgnoresStatusAndOwner ==
    \A id \in DOMAIN records, u \in Users :
    \A data \in {<<>>} \cup {[vote_type |-> Some(t)] : t \in valid_vote_types} :
    \A out \in {vote_record(UserIdentity(u), id, data)} :
        /\ out.status = 200
        /\ out.votes[<<id, u>>] = <<Get(data, "vote_type", Some("support"))[1]>>
        /\ out.records[id].status = records[id].status
        /\ out.records[id].normal_user_id = records[id].normal_user_id

\* A draft, which the public list hides, holds the votes of its owner and of
\* another user.
C38_Witness ==
    \E id \in DOMAIN records, u \in Users :
        /\ records[id].status = "draft"
        /\ ~is_public(records[id])
        /\ records[id].normal_user_id \in Users \ {u}
        /\ votes[<<id, u>>] # <<>>
        /\ votes[<<id, records[id].normal_user_id>>] # <<>>
        /\ records[id].vote_count = 2

----------------------------------------------------------------------------
(* Record contents.  SpecContent serves the two creating handlers and      *)
(* update_record with request bodies that carry coordinates, types and     *)
(* media URLs.                                                             *)

Jpg == Url("https", "cdn.example", ".jpg")

Mp4 == Url("https", "cdn.example", ".mp4")

ContentCreateInputs ==
    { report,
      [latitude |-> Some(10), longitude |-> Some(20)] @@ report,
      [latitude |-> Some(95), longitude |-> Some(20)] @@ report,
      [latitude |-> Some(95)] @@ report,
      [longitude |-> Some(200)] @@ report,
      [type |-> Some("bribe")] @@ report,
      [image_url |-> Some(Jpg)] @@ report }

ContentUpdateInputs ==
    { [title |-> Some("Edited")],
      [latitude |-> Some(95)],
      [latitude |-> Some(10), longitude |-> Some(200)],
      [longitude |-> Some(20)],
      [type |-> Some("bribe")],
      [type |-> Some("incident")],
      [video_url |-> Some(Mp4)],
      [status |-> Some("resolved"), vote_count |-> Some(7),
       is_anonymous |-> Some(TRUE), normal_user_id |-> Some(2),
       assigned_admin_id |-> Some(1), resolution_notes |-> Some("Fixed")] }

ReportContent ==
    \E data \in ContentCreateInputs : Serve(anonymous_report(data))

CreateContent ==
    \E u \in Users, data \in ContentCreateInputs :
        Serve(create_record(UserIdentity(u), data, Working))

UpdateContent ==
    \E u \in Users, id \in RecordIds, data \in ContentUpdateInputs :
        Serve(update_record(UserIdentity(u), id, data))

NextContent ==
    \/ ReportContent
    \/ CreateContent
    \/ UpdateContent

SpecContent == Init /\ [][NextContent]_vars

\* The coordinate is absent, or a number between lo and hi.
InRange(v, lo, hi) == v # None => (IsFloat(v) /\ lo <= v[1] /\ v[1] <= hi)

\* The request body carries a coordinate that is not a number in its range.
OutOfRange(data) ==
    \/ ~InRange(Get(data, "latitude", None), -90, 90)
    \/ ~InRange(Get(data, "longitude", None), -180, 180)

\* C22: after any sequence of creations, anonymous reports and updates, the
\* latitude of every stored record is absent or in [-90, 90] and its longitude
\* is absent or in [-180, 180]; and a creation, an anonymous report or an
\* update by the owner of a draft whose body carries an out-of-range
\* coordinate, alone or with the other coordinate, is answered 400.
C22_CoordinatesInRange ==
    /\ \A id \in DOMAIN records :
         /\ InRange(records[id].latitude, -90, 90)
         /\ InRange(records[id].longitude, -180, 180)
    /\ \A data \in ContentCreateInputs :
         OutOfRange(data) =>
            /\ anonymous_report(data).status = 400
            /\ \A u \in Users : create_record(UserIdentity(u), data, Working).status = 400
    /\ \A id \in DOMAIN records, data \in ContentUpdateInputs :
         ( /\ OutOfRange(data)
           /\ records[id].normal_user_id # NULL
           /\ records[id].status = "draft" )
         => update_record(UserIdentity(records[id].normal_user_id), id, data).status = 400

\* C27: after any sequence of creations, anonymous reports and updates by
\* owners, the type of every stored record is one of red-flag, intervention,
\* incident, complaint, suggestion and emergency.
C27_TypeInSet ==
    \A id \in DOMAIN records : records[id].type \in {Some(t) : t \in valid_types}

\* C31: after any sequence of creations, anonymous reports and updates served
\* one at a time every record has at most one media row: a creation stores
\* one row when its body names a URL and none otherwise, and an update by the
\* owner whose body names a URL is answered 200 with one row, the existing row
\* rewritten in place when there is one, a row added when there is none.
C31_AtMostOneMedia ==
    /\ \A id \in TableIds : Len(media[id]) <= 1
    /\ \A data \in ContentCreateInputs :
         /\ \A out \in {anonymous_report(data)} :
              Len(out.media[next_record_id]) <= 1
         /\ \A u \in Users :
              \A out \in {create_record(UserIdentity(u), data, Working)} :
                 Len(out.media[next_record_id])
                    = IF out.status = 201 /\ "image_url" \in DOMAIN data THEN 1 ELSE 0
    /\ \A id \in DOMAIN records :
         (records[id].normal_user_id # NULL /\ records[id].status = "draft") =>
            \A out \in {update_record(UserIdentity(records[id].normal_user_id), id,
                                      [video_url |-> Some(Mp4)])} :
               /\ out.status = 200
               /\ Len(out.media[id]) = 1
               /\ out.media[id][1].video_url = Some(Mp4)
               /\ out.media[id][1].media_url = Some(Mp4)
               /\ media[id] # <<>> => out.media[id][1].image_url = media[id][1].image_url

\* A record created with an image whose media row an update has rewritten
\* with a video, next to a record whose media row an update has added.
C31_Witness ==
    \E a \in DOMAIN records, b \in DOMAIN records :
        /\ Len(media[a]) = 1
        /\ media[a][1].image_url = Some(Jpg)
        /\ media[a][1].video_url = Some(Mp4)
        /\ Len(media[b]) = 1
        /\ media[b][1].image_url = None
        /\ media[b][1].video_url = Some(Mp4)

----------------------------------------------------------------------------
(* Deletion.  SpecDelete serves every handler, and creations that attach a *)
(* media row.                                                              *)

CreateWithMedia ==
    \E u \in Users :
        Serve(create_record(UserIdentity(u), [image_url |-> Some(Jpg)] @@ report, Working))

NextDelete ==
    \/ Next
    \/ CreateWithMedia

SpecDelete == Init /\ [][NextDelete]_vars

\* The tables as they are, laid out as the tables of an outcome.
db_tables ==
    [records |-> records, media |-> media, votes |-> votes,
     status_history |-> status_history, next_record_id |-> next_record_id]

\* No media, votes or status_history row of table set `out` references id.
NoRowsOf(out, id) ==
    /\ out.media[id] = <<>>
    /\ out.status_history[id] = <<>>
    /\ \A u \in Users : out.votes[<<id, u>>] = <<>>

\* The rows of `out` that reference id are those of the tables.
SameRowsOf(out, id) ==
    /\ out.media[id] = media[id]
    /\ out.status_history[id] = status_history[id]
    /\ \A u \in Users : out.votes[<<id, u>>] = votes[<<id, u>>]

\* C23: a delete is answered 200 only for the owner of a draft record; it
\* then removes the record and every media, votes and status_history row that
\* references it, and leaves every other record and its rows as they are; a
\* delete answered otherwise changes nothing.  In every reachable state the
\* media, votes and status_history rows all reference existing records.
C23_DeleteCascades ==
    /\ \A id \in TableIds \ DOMAIN records : NoRowsOf(db_tables, id)
    /\ \A identity \in Identities, id \in RecordIds :
         \A out \in {delete_record(identity, id)} :
            IF out.status = 200
            THEN /\ id \in DOMAIN records
                 /\ identity = UserIdentity(records[id].normal_user_id)
                 /\ records[id].status = "draft"
                 /\ DOMAIN out.records = DOMAIN records \ {id}
                 /\ NoRowsOf(out, id)
                 /\ \A other \in DOMAIN out.records :
                      /\ out.records[other] = records[other]
                      /\ SameRowsOf(out, other)
                 /\ out.next_record_id = next_record_id
            ELSE Untouched(out)

\* A record has been deleted, and its owner can delete another draft, which
\* has a media row and a vote, next to a record with a ledger.
C23_Witness ==
    /\ \E id \in 1..(next_record_id - 1) : id \notin DOMAIN records
    /\ \E id \in DOMAIN records :
         /\ records[id].status = "draft"
         /\ media[id] # <<>>
         /\ \E u \in Users : votes[<<id, u>>] # <<>>
         /\ delete_record(UserIdentity(records[id].normal_user_id), id).status = 200

\* max(lo, min(v, hi))
Clamp(v, lo, hi) == IF v < lo THEN lo ELSE IF v > hi THEN hi ELSE v

\* The values of the page and per_page arguments of the model.
PageValues == {-1, 0, 1, 2, 10, 100, 101, 500}

\* The query strings of the model that carry integer page and per_page
\* arguments, each present or not.
PagingInputs ==
    { [k \in keys |-> full[k]] :
        keys \in SUBSET {"page", "per_page"},
        full \in [page : {Some(v) : v \in PageValues},
                  per_page : {Some(v) : v \in PageValues}] }

\* GET /public/records arrives in session s, and its pagination parameters
\* are extracted.
ListReceive(s, args) ==
    /\ sess[s] = NoSession
    /\ sess' = [sess EXCEPT ![s] =
                  [pc |-> "query", op |-> "get_public_records", args |-> args,
                   paging |-> get_pagination_params(args)]]
    /\ UNCHANGED db

\* The page is queried and the response is sent.
ListRespond(s) ==
    /\ sess[s].pc = "query"
    /\ get_public_records(records, sess[s].args).body.pagination.per_page
         = sess[s].paging.per_page
    /\ sess' = [sess EXCEPT ![s] = NoSession]
    /\ UNCHANGED db

NextList ==
    \E s \in Sessions :
        \/ \E args \in PagingInputs : ListReceive(s, args)
        \/ ListRespond(s)

SpecList == Init /\ [][NextList]_vars

\* C25: for integer arguments the page is max(page, 1) and the page size is
\* per_page clamped into [1, 100], so that a per_page above 100 becomes 100 and
\* a per_page below 1 becomes 1; an argument that is missing takes its default,
\* page 1 and page size 10.
C25_PaginationClamped ==
    \A s \in Sessions :
        sess[s].pc = "query" =>
            LET page == Get(sess[s].args, "page", Some(1))[1]
                per_page == Get(sess[s].args, "per_page", Some(10))[1]
            IN  sess[s].paging =
                    [page |-> Clamp(page, 1, page), per_page |-> Clamp(per_page, 1, 100)]

\* The query strings of the model whose page and per_page arguments, each
\* present or not, are decimal strings or strings that int() refuses.
QueryInputs ==
    { [k \in keys |-> full[k]] :
        keys \in SUBSET {"page", "per_page"},
        full \in [page : {Some(v) : v \in PageValues} \cup {Text("abc"), Text("3.5")},
                  per_page : {Some(v) : v \in PageValues} \cup {Text("abc"), Text("3.5")}] }

NextQuery ==
    \E s \in Sessions :
        \/ \E args \in QueryInputs : ListReceive(s, args)
        \/ ListRespond(s)

SpecQuery == Init /\ [][NextQuery]_vars

\* C39: whatever the page and per_page arguments of a request are, the
\* parameters extracted from it have page >= 1 and 1 <= per_page <= 100, and
\* when either argument is not an integer they are page 1 and page size 10,
\* whatever the other argument is.
C39_PaginationJoint ==
    \A s \in Sessions :
        sess[s].pc = "query" =>
            /\ sess[s].paging.page >= 1
            /\ sess[s].paging.per_page \in 1..100
            /\ (\E k \in DOMAIN sess[s].args : ~IsInt(sess[s].args[k]))
                  => sess[s].paging = [page |-> 1, per_page |-> 10]

\* A request whose page is not an integer and whose per_page is 100, and a
\* request whose page is 2 and whose per_page is not an integer, are being
\* served, both with page 1 and page size 10.
C39_Witness ==
    \E s, t \in Sessions :
        /\ sess[s].pc = "query" /\ sess[t].pc = "query"
        /\ sess[s].args = [page |-> Text("abc"), per_page |-> Some(100)]
        /\ sess[t].args = [page |-> Some(2), per_page |-> Text("3.5")]
        /\ sess[s].paging = [page |-> 1, per_page |-> 10]
        /\ sess[t].paging = [page |-> 1, per_page |-> 10]

\* The columns of a record that no update may change.
protected_columns ==
    {"status", "normal_user_id", "is_anonymous", "vote_count", "assigned_admin_id",
     "resolution_notes"}

\* C28: an update answered 200 sets the editable columns its body names to
\* the values of the body and leaves every other column of the record as it
\* was, status, normal_user_id, is_anonymous, vote_count, assigned_admin_id and
\* resolution_notes also when the body names them; it leaves the media rows of
\* the record as they are unless the body names image_url or video_url, and
\* leaves all votes, all ledgers, every other record and its media rows and
\* the key sequence as they are.
C28_UpdateFrame ==
    \A u \in Users, id \in RecordIds, data \in UpdateInputs \cup ContentUpdateInputs :
        \A out \in {update_record(UserIdentity(u), id, data)} :
            out.status = 200 =>
                /\ DOMAIN out.records = DOMAIN records
                /\ \A k \in DOMAIN records[id] :
                     IF k \in DOMAIN data /\ k \notin protected_columns
                     THEN out.records[id][k] = data[k]
                     ELSE out.records[id][k] = records[id][k]
                /\ \A other \in DOMAIN records \ {id} :
                     out.records[other] = records[other]
                /\ \A other \in TableIds :
                     (other # id \/ DOMAIN data \cap {"image_url", "video_url"} = {})
                        => out.media[other] = media[other]
                /\ out.votes = votes
                /\ out.status_history = status_history
                /\ out.next_record_id = next_record_id

\* A draft with a media row and a vote whose title has been edited, and whose
\* owner may still name a video and a status in an update.
C28_Witness ==
    \E id \in DOMAIN records :
        /\ records[id].title = Some("Edited")
        /\ media[id] # <<>>
        /\ records[id].vote_count > 0
        /\ \A data \in {[video_url |-> Some(Mp4)],
                        [status |-> Some("resolved"), vote_count |-> Some(7),
                         is_anonymous |-> Some(TRUE), normal_user_id |-> Some(2)]} :
             update_record(UserIdentity(records[id].normal_user_id), id, data).status = 200

\* The ids of the records the public list shows when asked without filters.
PublicIds(recs) ==
    LET listed == get_public_records(recs, <<>>).body.records
    IN  {listed[i].id : i \in 1..Len(listed)}

\* C35: when requests are served one at a time, a record that is not a draft
\* stays and is frozen: every delete and every update of it, by any caller
\* and with any body, is refused and changes nothing, and no step removes it
\* or changes its title, description, type, coordinates, location name,
\* urgency or media rows; the public list asked without filters shows exactly
\* the records that are not drafts, so a record it shows is shown in every
\* later state.
C35_NonDraftFrozen ==
    /\ [](PublicIds(records) = {id \in DOMAIN records : records[id].status # "draft"})
    /\ [](\A id \in DOMAIN records :
            records[id].status # "draft" =>
               \A identity \in Identities :
                  /\ \A out \in {delete_record(identity, id)} :
                       out.status \in {400, 403} /\ Untouched(out)
                  /\ \A data \in UpdateInputs \cup ContentUpdateInputs :
                       \A out \in {update_record(identity, id, data)} :
                          out.status \in {400, 403} /\ Untouched(out))
    /\ [][\A id \in DOMAIN records :
            records[id].status # "draft" =>
               /\ id \in DOMAIN records'
               /\ records'[id].status # "draft"
               /\ \A k \in editable_columns : records'[id][k] = records[id][k]
               /\ media'[id] = media[id]]_vars

\* A record created with an image and voted on that a status update has taken
\* out of draft, and that the public list shows.
C35_Witness ==
    \E id \in DOMAIN records :
        /\ records[id].normal_user_id # NULL
        /\ records[id].status = "under-investigation"
        /\ media[id] # <<>>
        /\ records[id].vote_count > 0
        /\ id \in PublicIds(records)

----------------------------------------------------------------------------
(* Concurrent vote requests.  Each request runs in a database session of   *)
(* its own and takes one step per SQL statement; the tables hold the       *)
(* committed rows.  A statement reads the committed rows and the rows its  *)
(* own session has written (READ COMMITTED, the default of a server        *)
(* database named by SQLALCHEMY_DATABASE_URI); a write on a votes key on   *)
(* which another open session holds a write waits for that session to end. *)
(* The SQLite fallback lets one session write at a time, which is a subset *)
(* of these interleavings.                                                 *)

InFlight(s) == sess[s].pc # "idle"

SessionKey(s) == <<sess[s].record_id, sess[s].user_id>>

\* Session s holds an uncommitted write of one of `kinds` on the votes key.
HoldsWrite(s, key, kinds) ==
    InFlight(s) /\ SessionKey(s) = key /\ sess[s].wrote \in kinds

Others(s) == Sessions \ {s}

\* The unique index as an INSERT of session s meets it: the committed rows,
\* the rows other open sessions have inserted, and the new row.
IndexOnInsert(s, key, vote_type) ==
    LET pending == Cardinality({o \in Others(s) : HoldsWrite(o, key, {"insert"})})
    IN  [votes EXCEPT ![key] = @ \o [i \in 1..pending |-> "pending"] \o <<vote_type>>]

Goto(s, session) == sess' = [sess EXCEPT ![s] = session]

\* except Exception: db.session.rollback(); the response is 4xx or 500.
Rollback(s) == Goto(s, NoSession) /\ UNCHANGED db

\* vote_record up to record = Record.query.get_or_404(record_id).
VoteSelectRecord(s, u, record_id, data) ==
    LET vote_type == Get(data, "vote_type", Some("support")) IN
    /\ ~InFlight(s)
    /\ IF vote_type \notin {Some(t) : t \in valid_vote_types} \/ ~Exists(record_id)
       THEN UNCHANGED vars
       ELSE /\ Goto(s, [pc |-> "select_vote", op |-> "vote_record", user_id |-> u,
                        record_id |-> record_id, vote_type |-> vote_type[1],
                        existing |-> None,
                        loaded |-> Some(records[record_id].vote_count),
                        wrote |-> "none", count |-> 0])
            /\ UNCHANGED db

\* existing_vote = Vote.query.filter_by(...).first(), and the change made to
\* the session: existing_vote.vote_type = vote_type, or db.session.add(new_vote).
VoteSelectVote(s) ==
    /\ InFlight(s) /\ sess[s].pc = "select_vote"
    /\ Goto(s, [sess[s] EXCEPT
            !.existing = existing_vote(votes, sess[s].record_id, sess[s].user_id),
            !.pc = "flush"])
    /\ UNCHANGED db

\* The autoflush of update_vote_count's first query in vote_record: the INSERT
\* of the new row, or the UPDATE of the existing row when its type changes.
VoteFlush(s) ==
    /\ InFlight(s) /\ sess[s].pc = "flush" /\ sess[s].op = "vote_record"
    /\ LET key == SessionKey(s)
           me == sess[s]
       IN
       IF me.existing = None
       THEN IF unique_user_vote(IndexOnInsert(s, key, me.vote_type))
            THEN Goto(s, [me EXCEPT !.wrote = "insert", !.pc = "count"]) /\ UNCHANGED db
            ELSE \* wait for the open session holding the key, then IntegrityError
                 /\ \A o \in Others(s) : ~HoldsWrite(o, key, {"insert", "update", "delete"})
                 /\ Rollback(s)
       ELSE IF me.existing = Some(me.vote_type)
       THEN Goto(s, [me EXCEPT !.pc = "count"]) /\ UNCHANGED db
       ELSE /\ \A o \in Others(s) : ~HoldsWrite(o, key, {"update", "delete"})
            /\ IF votes[key] = <<>>
               THEN Rollback(s)      \* the row is gone: StaleDataError
               ELSE Goto(s, [me EXCEPT !.wrote = "update", !.pc = "count"])
                    /\ UNCHANGED db

\* vote_count = Vote.query.filter_by(record_id=record_id).count() and
\* record.vote_count = vote_count on the record vote_record has loaded.
VoteCount(s) ==
    /\ InFlight(s) /\ sess[s].pc = "count" /\ sess[s].op = "vote_record"
    /\ Goto(s, [sess[s] EXCEPT
            !.count = CountVotes(votes, sess[s].record_id)
                        + (IF sess[s].wrote = "insert" THEN 1 ELSE 0),
            !.pc = "commit"])
    /\ UNCHANGED db

\* remove_vote up to db.session.delete(vote).
RetractSelectVote(s, u, record_id) ==
    /\ ~InFlight(s)
    /\ LET vote == existing_vote(votes, record_id, u) IN
       IF vote = None
       THEN UNCHANGED vars
       ELSE /\ Goto(s, [pc |-> "flush", op |-> "remove_vote", user_id |-> u,
                        record_id |-> record_id, vote_type |-> vote[1],
                        existing |-> vote, loaded |-> None,
                        wrote |-> "none", count |-> 0])
            /\ UNCHANGED db

\* The autoflush in remove_vote: the DELETE of the row.  A DELETE that matches
\* no row is a warning, not an error.
RetractFlush(s) ==
    /\ InFlight(s) /\ sess[s].pc = "flush" /\ sess[s].op = "remove_vote"
    /\ \A o \in Others(s) : ~HoldsWrite(o, SessionKey(s), {"update", "delete"})
    /\ Goto(s, [sess[s] EXCEPT
            !.wrote = IF votes[SessionKey(s)] = <<>> THEN "none" ELSE "delete",
            !.pc = "count"])
    /\ UNCHANGED db

\* vote_count = Vote.query.filter_by(record_id=record_id).count()
RetractCount(s) ==
    /\ InFlight(s) /\ sess[s].pc = "count" /\ sess[s].op = "remove_vote"
    /\ Goto(s, [sess[s] EXCEPT
            !.count = CountVotes(votes, sess[s].record_id)
                        - (IF sess[s].wrote = "delete" THEN 1 ELSE 0),
            !.pc = "load"])
    /\ UNCHANGED db

\* record = Record.query.get(record_id); if record: record.vote_count = vote_count
RetractLoad(s) ==
    /\ InFlight(s) /\ sess[s].pc = "load"
    /\ Goto(s, [sess[s] EXCEPT
            !.loaded = IF Exists(sess[s].record_id)
                       THEN Some(records[sess[s].record_id].vote_count) ELSE None,
            !.pc = "commit"])
    /\ UNCHANGED db

\* db.session.commit(): the UPDATE of records.vote_count when the value set
\* differs from the value loaded, then COMMIT, which publishes the session's
\* vote row change.
Commit(s) ==
    /\ InFlight(s) /\ sess[s].pc = "commit"
    /\ LET me == sess[s]
           key == SessionKey(s)
       IN
       /\ votes' = CASE me.wrote = "insert" -> [votes EXCEPT ![key] = Append(@, me.vote_type)]
                     [] me.wrote = "update" -> [votes EXCEPT ![key][1] = me.vote_type]
                     [] me.wrote = "delete" -> [votes EXCEPT ![key] = Tail(@)]
                     [] OTHER -> votes
       /\ records' = IF me.loaded # None /\ me.loaded # Some(me.count)
                     THEN [records EXCEPT ![me.record_id].vote_count = me.count]
                     ELSE records
    /\ Goto(s, NoSession)
    /\ UNCHANGED <<media, status_history, next_record_id>>

\* The tables after one anonymous report has been accepted.
InitConc ==
    /\ records = (1 :> Record(report, report.description,
                              "under-investigation", TRUE, NULL))
    /\ media = [r \in TableIds |-> <<>>]
    /\ votes = [k \in TableIds \X Users |-> <<>>]
    /\ status_history = [r \in TableIds |-> <<>>]
    /\ next_record_id = 2
    /\ sess = [s \in Sessions |-> NoSession]

Step(s) ==
    \/ VoteSelectVote(s)
    \/ VoteFlush(s)
    \/ VoteCount(s)
    \/ RetractFlush(s)
    \/ RetractCount(s)
    \/ RetractLoad(s)
    \/ Commit(s)

\* Requests of any user arrive in any session.
NextConc ==
    \E s \in Sessions :
        \/ \E u \in Users, id \in RecordIds, data \in VoteInputs :
                VoteSelectRecord(s, u, id, data)
        \/ \E u \in Users, id \in RecordIds : RetractSelectVote(s, u, id)
        \/ Step(s)

SpecConc == InitConc /\ [][NextConc]_vars

\* Each session serves the requests of one user, a different user each.
SessionUser(s) == ((s - 1) % NumUsers) + 1

NextDistinct ==
    \E s \in Sessions :
        \/ \E id \in RecordIds, data \in VoteInputs :
                VoteSelectRecord(s, SessionUser(s), id, data)
        \/ \E id \in RecordIds : RetractSelectVote(s, SessionUser(s), id)
        \/ Step(s)

SpecDistinct == InitConc /\ [][NextDistinct]_vars

----------------------------------------------------------------------------
(* Properties of concurrent vote requests *)

Quiescent == \A s \in Sessions : ~InFlight(s)

\* C4: when casts and retracts of different users on one record have run
\* concurrently and all of them have committed, the record's vote_count is the
\* number of votes rows that reference it: no update of the count is lost.
C4_NoLostCount ==
    Quiescent =>
        \A id \in DOMAIN records : records[id].vote_count = VoteRows(id)

\* C7: in every state, the states between the statements of interleaved casts
\* of one user included, a (record, user) pair has at most one votes row,
\* counting the committed row and the rows open sessions have inserted.
C7_OneVotePerUser ==
    \A key \in DOMAIN votes :
        Len(votes[key])
          + Cardinality({s \in Sessions : HoldsWrite(s, key, {"insert"})}) <= 1

\* A cast that found no vote of its user is about to insert its row, after a
\* racing cast of the same user has committed one.
C7_Witness ==
    \E s \in Sessions :
        /\ InFlight(s) /\ sess[s].pc = "flush" /\ sess[s].op = "vote_record"
        /\ sess[s].existing = None
        /\ votes[SessionKey(s)] # <<>>

----------------------------------------------------------------------------
(* Concurrent edits and status updates.  update_record and update_status   *)
(* read the record in one statement and write it at db.session.commit(),   *)
(* where the session flushes an UPDATE of the columns whose value differs  *)
(* from the value loaded, and the INSERTs of the rows added.               *)

\* The status updates in flight on record id.
Transitioning(id) ==
    {s \in Sessions : InFlight(s) /\ sess[s].op = "update_status"
                                  /\ sess[s].record_id = id}

\* update_status up to create_status_history(...): the record is loaded and
\* changed in the session.
StatusSelect(s, identity, id, data) ==
    /\ ~InFlight(s)
    /\ IF \/ ~is_admin(identity)
          \/ ~Exists(id)
          \/ Get(data, "status", None) \notin {Some(t) : t \in valid_statuses}
       THEN UNCHANGED vars
       ELSE /\ Len(status_history[id]) + Cardinality(Transitioning(id)) < MaxHistory
            /\ Goto(s, [pc |-> "commit_status", op |-> "update_status",
                        user_id |-> identity.id, record_id |-> id, data |-> data,
                        loaded |-> records[id]])
            /\ UNCHANGED db

\* db.session.commit() of update_status: UPDATE records SET the columns
\* changed, INSERT INTO status_history, COMMIT.
StatusCommit(s) ==
    /\ InFlight(s) /\ sess[s].pc = "commit_status"
    /\ LET me == sess[s]
           id == me.record_id
           new_status == me.data.status[1]
       IN
       IF ~Exists(id)
       THEN Rollback(s)       \* the UPDATE matches no row: StaleDataError
       ELSE /\ records' = [records EXCEPT ![id] = [@ EXCEPT
                    !.status = IF new_status # me.loaded.status THEN new_status ELSE @,
                    !.resolution_notes =
                        IF Truthy(Get(me.data, "resolution_notes", None))
                           /\ me.data.resolution_notes # me.loaded.resolution_notes
                        THEN me.data.resolution_notes ELSE @,
                    !.assigned_admin_id =
                        IF assign_admin(me.loaded.assigned_admin_id, me.user_id)
                              # me.loaded.assigned_admin_id
                        THEN me.user_id ELSE @]]
            /\ status_history' = [status_history EXCEPT ![id] = Append(@,
                    StatusHistory(me.loaded.status, new_status, me.user_id,
                                  Get(me.data, "reason", Some(""))))]
            /\ Goto(s, NoSession)
            /\ UNCHANGED <<media, votes, next_record_id>>

\* update_record up to the assignments to the record: the record is loaded,
\* the owner and the draft status are checked, the body is validated.
UpdateSelect(s, identity, id, data) ==
    /\ ~InFlight(s)
    /\ IF update_record(identity, id, data).status # 200
       THEN UNCHANGED vars
       ELSE /\ Goto(s, [pc |-> "commit_update", op |-> "update_record",
                        user_id |-> identity.id, record_id |-> id, data |-> data,
                        loaded |-> records[id]])
            /\ UNCHANGED db

\* db.session.commit() of update_record: UPDATE records SET the columns
\* changed, COMMIT.
UpdateCommit(s) ==
    /\ InFlight(s) /\ sess[s].pc = "commit_update"
    /\ LET me == sess[s]
           id == me.record_id
       IN
       IF ~Exists(id)
       THEN Rollback(s)       \* the UPDATE matches no row: StaleDataError
       ELSE /\ records' = [records EXCEPT ![id] =
                    [k \in DOMAIN @ |->
                        IF k \in editable_columns /\ k \in DOMAIN me.data
                           /\ me.data[k] # me.loaded[k]
                        THEN me.data[k] ELSE @[k]]]
            /\ Goto(s, NoSession)
            /\ UNCHANGED <<media, votes, status_history, next_record_id>>

\* The tables after user 1 has created one record.
InitEdit ==
    /\ records = (1 :> Record(report, report.description, "draft", FALSE, 1))
    /\ media = [r \in TableIds |-> <<>>]
    /\ votes = [k \in TableIds \X Users |-> <<>>]
    /\ status_history = [r \in TableIds |-> <<>>]
    /\ next_record_id = 2
    /\ sess = [s \in Sessions |-> NoSession]

EditInputs == { [title |-> Some("Edited")], [urgency_level |-> Some("high")] }

\* Each session serves the status updates of one admin, a different admin
\* each, and the edits of any user.
SessionAdmin(s) == ((s - 1) % NumAdmins) + 1

NextEdit ==
    \E s \in Sessions :
        \/ \E id \in RecordIds, data \in StatusInputs :
                StatusSelect(s, AdminIdentity(SessionAdmin(s)), id, data)
        \/ StatusCommit(s)
        \/ \E u \in Users, id \in RecordIds, data \in EditInputs :
                UpdateSelect(s, UserIdentity(u), id, data)
        \/ UpdateCommit(s)

SpecEdit == InitEdit /\ [][NextEdit]_vars

\* C17: when the status updates of two admins on one record interleave, the
\* first to write wins and the second is refused: every ledger row starts from
\* the status the row before it ended in, and assigned_admin_id is the admin of
\* the first row.
C17_FirstWriteWins ==
    \A id \in DOMAIN records :
        /\ \A i \in 2..Len(status_history[id]) :
              status_history[id][i].old_status = status_history[id][i - 1].new_status
        /\ status_history[id] # <<>> =>
              records[id].assigned_admin_id = status_history[id][1].changed_by

\* C18: an edit by the owner and a status update by an admin on one record are
\* serialized: no step changes the title, description, type, location or
\* urgency of a record whose committed status is not draft.
C18_NoEditAfterDraft ==
    [][\A id \in DOMAIN records :
         ~(records[id].status = "draft") =>
            /\ id \in DOMAIN records'
            /\ \A k \in editable_columns : records'[id][k] = records[id][k]]_vars

----------------------------------------------------------------------------
(* Creation, one statement at a time.  create_record and anonymous_report  *)
(* add the record and flush, add the media row when the body names a URL,  *)
(* and commit; a statement may fail (the database refuses it or is gone),  *)
(* and the except clause rolls the session back.  The tables hold the      *)
(* committed rows; the rows a session has flushed stay in its transaction. *)

\* The creation with db.session.commit() in the place of db.session.flush().
flush_commits(row) == [committed |-> <<row>>, pending |-> <<>>]

\* db.session.flush() after db.session.add(new_record): the INSERT is sent
\* within the open transaction, and no row is committed.
flush(row) == [committed |-> <<>>, pending |-> <<row>>]

photo_report == [title |-> Some("Photo of the bribe"), image_url |-> Some(Jpg)] @@ report

video_report == [title |-> Some("Photo of the bribe"), video_url |-> Some(Mp4)] @@ report

\* The request bodies that name a media URL carry a title that no other does.
MediaCreateInputs == {report, photo_report, video_report}

\* The handler up to db.session.flush(): the key is drawn from the sequence of
\* the table, which no rollback returns.
CreateFlush(s, identity, data) ==
    LET out == IF identity = AnonymousIdentity THEN anonymous_report(data)
               ELSE create_record(identity, data, Working)
        id == next_record_id
    IN  /\ ~InFlight(s)
        /\ out.status = 201
        /\ id <= MaxRecords
        /\ LET sent == flush(out.records[id]) IN
           /\ records' = IF sent.committed # <<>>
                         THEN records @@ (id :> sent.committed[1]) ELSE records
           /\ Goto(s, [pc |-> "add_media",
                       op |-> IF identity = AnonymousIdentity
                              THEN "anonymous_report" ELSE "create_record",
                       record_id |-> id, pending |-> sent.pending,
                       new_media |-> out.media[id], added |-> <<>>])
        /\ next_record_id' = id + 1
        /\ UNCHANGED <<media, votes, status_history>>

\* "Add media if provided": db.session.add(media)
CreateAddMedia(s) ==
    /\ InFlight(s) /\ sess[s].pc = "add_media"
    /\ Goto(s, [sess[s] EXCEPT !.added = sess[s].new_media, !.pc = "commit"])
    /\ UNCHANGED db

\* db.session.commit(): the INSERT of the media row, then COMMIT, which
\* publishes the rows of the transaction.
CreateCommit(s) ==
    /\ InFlight(s) /\ sess[s].pc = "commit"
    /\ sess[s].op \in {"create_record", "anonymous_report"}
    /\ LET me == sess[s] IN
       /\ records' = IF me.pending # <<>>
                     THEN records @@ (me.record_id :> me.pending[1]) ELSE records
       /\ media' = [media EXCEPT ![me.record_id] = me.added]
    /\ Goto(s, NoSession)
    /\ UNCHANGED <<votes, status_history, next_record_id>>

\* A statement after the flush raises: except Exception: db.session.rollback()
CreateFail(s) ==
    /\ InFlight(s) /\ sess[s].pc \in {"add_media", "commit"}
    /\ sess[s].op \in {"create_record", "anonymous_report"}
    /\ Rollback(s)

NextCreate ==
    \E s \in Sessions :
        \/ \E identity \in {AnonymousIdentity} \cup {UserIdentity(u) : u \in Users},
              data \in MediaCreateInputs : CreateFlush(s, identity, data)
        \/ CreateAddMedia(s)
        \/ CreateCommit(s)
        \/ CreateFail(s)

SpecCreate == Init /\ [][NextCreate]_vars

\* C29: in every state, whatever statement of a creation has failed, the
\* committed tables hold a record created with a media URL together with its
\* media row, and hold no media row without its record: a record whose
\* request named a URL has a media row, a record whose request named none has
\* none, and a key without a record has none.
C29_RecordWithItsMedia ==
    /\ \A id \in DOMAIN records :
         (records[id].title = photo_report.title) <=> (Len(media[id]) = 1)
    /\ \A id \in TableIds \ DOMAIN records : media[id] = <<>>

\* The creation that drew key 1 has failed after its flush and left nothing,
\* and the creation that drew key 2 has committed its record and media row.
C29_Witness ==
    /\ 1 \notin DOMAIN records
    /\ media[1] = <<>>
    /\ 2 \in DOMAIN records
    /\ Len(media[2]) = 1
    /\ \A s \in Sessions : ~InFlight(s)

----------------------------------------------------------------------------
(* Concurrent deletes and status updates.  delete_record reads the record  *)
(* and checks it; db.session.delete(record) loads the media, votes and     *)
(* status_history rows of the record for the cascade; db.session.commit()  *)
(* sends the DELETEs of the rows loaded and of the record, which names the *)
(* record by its key alone, and commits.                                   *)

\* delete_record up to the checks of the owner and of the draft status.
DeleteSelect(s, identity, id) ==
    /\ ~InFlight(s)
    /\ IF delete_record(identity, id).status # 200
       THEN UNCHANGED vars
       ELSE /\ Goto(s, [pc |-> "cascade", op |-> "delete_record",
                        user_id |-> identity.id, record_id |-> id,
                        loaded |-> records[id], history |-> <<>>])
            /\ UNCHANGED db

\* db.session.delete(record): the rows that reference the record are loaded.
DeleteCascade(s) ==
    /\ InFlight(s) /\ sess[s].pc = "cascade"
    /\ Goto(s, [sess[s] EXCEPT !.history = status_history[sess[s].record_id],
                               !.pc = "commit_delete"])
    /\ UNCHANGED db

\* db.session.commit() of delete_record.  When a status_history row has been
\* committed since the rows were loaded, a database that enforces the foreign
\* key refuses the DELETE of the record (IntegrityError, rollback), and the
\* SQLite fallback, which does not, deletes the record and leaves that row.
DeleteCommit(s) ==
    /\ InFlight(s) /\ sess[s].pc = "commit_delete"
    /\ LET me == sess[s]
           id == me.record_id
           left == SubSeq(status_history[id], Len(me.history) + 1,
                          Len(status_history[id]))
       IN
       IF ~Exists(id)
       THEN Rollback(s)       \* the DELETE matches no row: StaleDataError
       ELSE \/ /\ left # <<>>
               /\ Rollback(s)
            \/ /\ records' = DeleteRecord(id)
               /\ media' = CascadeRows(media, id)
               /\ votes' = CascadeVotes(votes, id)
               /\ status_history' = [status_history EXCEPT ![id] = left]
               /\ Goto(s, NoSession)
               /\ UNCHANGED next_record_id

\* Each session serves the status updates of one admin and the deletes of
\* any user.
NextRemove ==
    \E s \in Sessions :
        \/ \E id \in RecordIds, data \in StatusInputs :
                StatusSelect(s, AdminIdentity(SessionAdmin(s)), id, data)
        \/ StatusCommit(s)
        \/ \E u \in Users, id \in RecordIds : DeleteSelect(s, UserIdentity(u), id)
        \/ DeleteCascade(s)
        \/ DeleteCommit(s)

SpecRemove == InitEdit /\ [][NextRemove]_vars

\* C36: when a delete of a draft by its owner and a status update of the same
\* record by an admin interleave, no step removes a committed ledger row and
\* no step removes a record whose committed status is not draft.
C36_DeleteOrTransition ==
    [][\A id \in DOMAIN records :
         /\ IsPrefix(status_history[id], status_history'[id])
         /\ records[id].status # "draft" => id \in DOMAIN records']_vars

============================================================================
